---- MODULE Spec2Model ----
(***************************************************************************)
(* The trading-cycle orchestrator of the position-aware TradingStrategy    *)
(* (attached_assets/strategy), with the broker, the decision adapter, the  *)
(* trade log, the performance statistics and the reflection log it calls.  *)
(*                                                                         *)
(* One cycle is run at a time.  The cycle is cut at its calls to the       *)
(* external ports, so that every port answer is an input of one action:    *)
(*   QueryPositions -> FetchData -> ComputeIndicators -> Decide            *)
(*     -> Reconcile -> LogTrade -> Reflect -> CycleReturn                  *)
(* An exception anywhere in the body lands in the single except clause of  *)
(* trading_cycle (Fail), which returns an error descriptor.                *)
(*                                                                         *)
(* Quantities are integers in units of 10^-6 (round(x, 6) keeps 6          *)
(* decimals); equity, prices and sizing percentages are integers.          *)
(***************************************************************************)
EXTENDS Integers, Sequences, FiniteSets, TLC

VARIABLES
    \* one trading cycle (TradingStrategy.trading_cycle)
    pc,             \* position of the running cycle in trading_cycle
    asset,          \* self.asset of the strategy whose cycle is running
    open_position,  \* the matched position of step 1, or None
    df,             \* the data frame: [n |-> rows, close |-> last close]
    ai_decision,    \* the decision returned by analyze_market_with_openai
    executed,       \* the execution outcome put on the trade record
    orders,         \* the orders handed to the broker client in this cycle
    result,         \* what trading_cycle returns
    trades,         \* per asset: rows of TradeHistory.trades (in memory)
    ledger,         \* per asset: the rows of logs/<asset>_trades.csv
    reflections,    \* per asset: the lines of logs/<asset>_reflections.jsonl
    start,          \* the ledger/reflection sizes when the cycle started
    answers,        \* what each port answered in this cycle
    limit,          \* the cycles this run may log (never changes)
    \* the broker's books
    held,           \* per asset: the position open at the broker, or None
    filled,         \* the order of the running cycle has been filled
    port_positions, \* the list the position query returned (the local positions)
    \* the sequential runner (run_all_trading_loops)
    loop_pc,        \* position of the runner in its loop
    loop_index,     \* index in strategies.items() of the asset being run
    min_sleep,      \* the local min_sleep
    round_results,  \* what trading_cycle returned to the runner in this round
    slept,          \* the argument of the last time.sleep, or None
    \* the control channel and its timed runners (ws_asset)
    ws,             \* per connection: the locals of ws_asset and trading_loop
    now,            \* time.time()
    interval_settings, \* interval_settings.json: per asset the value, or None
    control,        \* per asset: the last pause/resume message received
    received,       \* the message that the last step received, if any
    \* the trade log file (log_trade, load_trade_log)
    log_file,       \* per asset: logs/<asset>_trades.csv as lines
    appended,       \* per asset: the records handed to log_trade so far
    loaded,         \* what the last load_trade_log returned
    writers,        \* per server process: its set_interval call and the local intervals
    \* the indicator engine (add_indicators)
    bar_frame,      \* the bars handed to add_indicators
    aligned         \* what add_indicators returned

cycle_vars == <<pc, asset, open_position, df, ai_decision, executed, orders,
                result, trades, ledger, reflections, start, answers, limit>>
broker_vars == <<held, filled, port_positions>>
runner_vars == <<loop_pc, loop_index, min_sleep, round_results, slept>>
web_vars == <<ws, now, interval_settings, control, received>>
file_vars == <<log_file, appended, loaded, writers>>
indicator_vars == <<bar_frame, aligned>>

\* everything but the cycle
outside_cycle == <<broker_vars, runner_vars, web_vars, file_vars,
                   indicator_vars>>

vars == <<cycle_vars, broker_vars, runner_vars, web_vars, file_vars,
          indicator_vars>>

\* Python's None where a number is expected is the empty sequence, and a
\* number x is <<x>>
Null == <<>>
Num(x) == <<x>>

\* the values of the cycle's locals before they are assigned
NoPosition == [symbol |-> <<>>, side |-> "", qty |-> 0, isdict |-> TRUE]
NoDecision == [recommendation |-> "", position_sizing |-> Null]
NoExecution == [kind |-> "", qty |-> 0, price |-> 0]
NoResult == [kind |-> "", at |-> ""]
NoStart == [ledger |-> 0, reflections |-> 0, trades |-> 0]
NoAnswers == [data |-> "", decision |-> "", equity |-> Null, order |-> "",
              reflection |-> "", queries |-> 0, keys |-> {}]

-----------------------------------------------------------------------------
(* Bounds of the model *)

\* cycles (over all assets) that may reach the logging step
MaxCycles == 2
\* the same in the long runs, which reach the reflection
MaxLongCycles == 5
\* positions the broker reports in one answer
MaxPositions == 2

-----------------------------------------------------------------------------
(* Program constants *)

\* trading_cycle(self, reflection_interval=10)
reflection_interval == 10
\* the longest indicator window (SMA50/EMA50): rows before it hold NaN
MinBars == 50
\* round(position_value / price, 6)
QtyDecimals == 6

\* Config.ASSETS = ["BTC/USD", "SOL/USD"], as character sequences
BTCUSD == <<"B", "T", "C", "/", "U", "S", "D">>
SOLUSD == <<"S", "O", "L", "/", "U", "S", "D">>
ASSETS == {BTCUSD, SOLUSD}

-----------------------------------------------------------------------------
(* Strings: str.upper, str.lower, str.replace on character sequences *)

upper_char(c) ==
    CASE c = "b" -> "B" [] c = "t" -> "T" [] c = "c" -> "C"
      [] c = "s" -> "S" [] c = "o" -> "O" [] c = "l" -> "L"
      [] c = "u" -> "U" [] c = "d" -> "D"
      [] OTHER -> c

upper(s) == [i \in DOMAIN s |-> upper_char(s[i])]

replace(s, old, new) == [i \in DOMAIN s |-> IF s[i] = old THEN new ELSE s[i]]

lower_side(s) ==
    CASE s = "LONG" -> "long" [] s = "Long" -> "long"
      [] s = "SHORT" -> "short" [] s = "Short" -> "short"
      [] OTHER -> s

Abs(x) == IF x < 0 THEN -x ELSE x

-----------------------------------------------------------------------------
(* Inputs: what the ports can answer *)

\* symbols as the broker may spell them
PosSymbols ==
    { <<"b", "t", "c", "-", "u", "s", "d">>,
      <<"S", "O", "L", "_", "U", "S", "D">>,
      <<"B", "T", "C", "U", "S", "D">> }

\* a position is a dict or an object with attributes (isdict); the broker
\* reports a short position with a negative qty
Positions ==
    { [symbol |-> s, side |-> "long", qty |-> 2000000, isdict |-> d] :
        s \in PosSymbols, d \in BOOLEAN }
    \cup
    { [symbol |-> s, side |-> "short", qty |-> -3000000, isdict |-> d] :
        s \in PosSymbols, d \in BOOLEAN }

PositionLists ==
    UNION { [1..k -> Positions] : k \in 0..MaxPositions }

\* bars returned by the data client: rows and the close of the last row
BarCounts == {0, 30, 50, 80}
Closes == {200, 9}
NoDf == [n |-> 0, close |-> 0]
Bars == { NoDf }
        \cup { [n |-> n, close |-> c] : n \in BarCounts \ {0}, c \in Closes }

\* the ways the decision call ends: an error descriptor (no '{'..'}' span,
\* unparsable JSON, the API call raised) or a parsed JSON object
DecisionErrors == {"no_json", "parse_error", "api_error"}
DecisionOutcomes == DecisionErrors \cup {"parsed"}
\* the parsed JSON object: the keys it holds and their values (a sizing may
\* be null)
Labels == {"BUY", "SELL", "HOLD", "buy"}
Sizings == {Num(0), Num(15), Num(120), Null}
RawDecisions ==
    [keys : SUBSET {"recommendation", "position_sizing"},
     recommendation : Labels, position_sizing : Sizings]

\* account.equity, or None when get_account_info caught an exception
Equities == {Num(10000), Num(1), Null}

\* what client.submit_order does: raises, returns an order object, or returns
\* a dict, with the fill price or without one (price 0: the key is missing)
OrderResponses ==
    { [kind |-> "raise", price |-> 0], [kind |-> "object", price |-> 200],
      [kind |-> "dict", price |-> 200], [kind |-> "dict", price |-> 0] }

-----------------------------------------------------------------------------
(* Pure functions *)

\* line 70: pos_symbol.upper().replace('-', '/').replace('_', '/') == self.asset.upper()
symbol_matches(pos_symbol, a) ==
    replace(replace(upper(pos_symbol), "-", "/"), "_", "/") = upper(a)

\* find_open_position taking the last position whose symbol matches
find_open_position_last(positions, a) ==
    LET matching == { i \in DOMAIN positions :
                        symbol_matches(positions[i].symbol, a) }
    IN  IF matching = {} THEN NoPosition
        ELSE positions[CHOOSE i \in matching : \A j \in matching : j <= i]

\* lines 64-72: the first position whose symbol matches, or None
RECURSIVE find_open_position(_, _)
find_open_position(positions, a) ==
    IF positions = <<>> THEN NoPosition
    ELSE IF symbol_matches(Head(positions).symbol, a) THEN Head(positions)
    ELSE find_open_position(Tail(positions), a)

\* the first k decimal digits of r/den (0 <= r < den) and the remainder left
RECURSIVE decimals(_, _, _)
decimals(r, den, k) ==
    IF k = 0 THEN <<0, r>>
    ELSE LET d == (r * 10) \div den
             rest == decimals((r * 10) % den, den, k - 1)
         IN  <<d * (10 ^ (k - 1)) + rest[1], rest[2]>>

\* round(num / den, 6) in units of 10^-6, ties to even
round6(num, den) ==
    LET fr == decimals(num % den, den, QtyDecimals)
        t  == (num \div den) * (10 ^ QtyDecimals) + fr[1]
    IN  IF 2 * fr[2] > den \/ (2 * fr[2] = den /\ t % 2 = 1) THEN t + 1 ELSE t

\* order_qty with the quotient cut after 6 decimals instead of rounded
order_qty_truncated(equity, position_sizing, price) ==
    LET num == equity * position_sizing
        den == 100 * price
    IN  (num \div den) * (10 ^ QtyDecimals) + decimals(num % den, den, QtyDecimals)[1]

\* lines 113-116: qty = round(equity * position_sizing / 100 / price, 6)
order_qty(equity, position_sizing, price) ==
    round6(equity * position_sizing, 100 * price)

\* add_indicators: the rows before the longest window hold NaN and are dropped
add_indicators(frame) ==
    IF frame.n < MinBars THEN NoDf
    ELSE [n |-> frame.n - (MinBars - 1), close |-> frame.close]

\* strategy line 84: summarize_for_ai(df, bars=30)
SummaryBars == 30

\* summarize_for_ai: df.tail(bars), every field a list of its rows; a frame
\* with fewer rows gives all its rows, and nothing is raised
summarize_for_ai(frame, bars) ==
    [entries |-> IF frame.n < bars THEN frame.n ELSE bars]

\* analyze_market_with_openai lines 113-118: setdefault on a parsed object
set_defaults(raw) ==
    [recommendation  |-> IF "recommendation" \in raw.keys
                         THEN raw.recommendation ELSE "HOLD",
     position_sizing |-> IF "position_sizing" \in raw.keys
                         THEN raw.position_sizing ELSE Num(0)]

\* log_trade: the row of the CSV file; only the P&L of the row is kept
\* (qty * price as trade_performance_stats computes it; a missing qty or
\* price is NaN and counts 0)
csv_row(exec) ==
    IF exec.kind = "dict" /\ exec.qty > 0 /\ exec.price > 0 THEN 1 ELSE 0

\* trade_performance_stats: {} on an empty log; best_trade is
\* win_trades.iloc[win_trades["pnl"].idxmax()]: the label of the first best
\* row used as a position among the winning rows only
first_win(rows) ==
    IF \E i \in DOMAIN rows : rows[i] > 0
    THEN (CHOOSE i \in DOMAIN rows :
             rows[i] > 0 /\ \A j \in 1..(i - 1) : rows[j] <= 0) - 1
    ELSE -1

wins(rows) == Cardinality({i \in DOMAIN rows : rows[i] > 0})

trade_performance_stats(rows) ==
    IF rows = <<>> THEN [raises |-> FALSE, total_trades |-> 0]
    ELSE IF wins(rows) > 0 /\ first_win(rows) >= wins(rows)
         THEN [raises |-> TRUE, total_trades |-> 0]
         ELSE [raises |-> FALSE, total_trades |-> Len(rows)]

\* line 132
reflection_due(trade_count) ==
    trade_count % reflection_interval = 0 /\ trade_count > 0

Sum2(f) == f[BTCUSD] + f[SOLUSD]

-----------------------------------------------------------------------------
(* The parts of the program that a specification does not run stay as they *)
(* are before they start.                                                  *)

\* control-channel connections that may be open at once
Conns == {1, 2}

NoConn == [state |-> "closed", asset |-> <<>>, paused |-> FALSE, interval |-> 0,
           next_run |-> 0, cycle_now |-> 0, task |-> "none",
           in_cycle |-> FALSE, last_start |-> Null, last_interval |-> 0]
NoMessage == [conn |-> 0, action |-> "", interval |-> <<>>]
NoFile == [exists |-> FALSE, lines |-> <<>>]
NoLoad == [asset |-> <<>>, raises |-> FALSE, rows |-> <<>>]
NoAligned == [called |-> FALSE, raises |-> FALSE, rows |-> <<>>]
\* server processes that share interval_settings.json
Writers == {1, 2}
NoCall == [pc |-> "idle", asset |-> <<>>, interval |-> 0,
           intervals |-> [a \in ASSETS |-> Null]]

BrokerIdle ==
    /\ held = [a \in ASSETS |-> NoPosition]
    /\ filled = FALSE
    /\ port_positions = <<>>

RunnerIdle ==
    /\ loop_pc = "off"
    /\ loop_index = 0
    /\ min_sleep = 0
    /\ round_results = <<>>
    /\ slept = Null

WebIdle ==
    /\ ws = [c \in Conns |-> NoConn]
    /\ now = 0
    /\ interval_settings = [a \in ASSETS |-> Null]
    /\ control = [a \in ASSETS |-> ""]
    /\ received = NoMessage

FileIdle ==
    /\ log_file = [a \in ASSETS |-> NoFile]
    /\ appended = [a \in ASSETS |-> <<>>]
    /\ loaded = NoLoad
    /\ writers = [w \in Writers |-> NoCall]

IndicatorIdle ==
    /\ bar_frame = <<>>
    /\ aligned = NoAligned

OutsideIdle ==
    /\ BrokerIdle
    /\ RunnerIdle
    /\ WebIdle
    /\ FileIdle
    /\ IndicatorIdle

-----------------------------------------------------------------------------
(* The state machine *)

Init ==
    /\ pc = "idle"
    /\ OutsideIdle
    /\ asset = <<>>
    /\ open_position = NoPosition
    /\ df = NoDf
    /\ ai_decision = NoDecision
    /\ executed = NoExecution
    /\ orders = <<>>
    /\ result = NoResult
    /\ trades = [a \in ASSETS |-> 0]
    /\ ledger = [a \in ASSETS |-> <<>>]
    /\ reflections = [a \in ASSETS |-> <<>>]
    /\ start = NoStart
    /\ answers = NoAnswers
    /\ limit = MaxCycles

\* Fail going on to the logging step instead of returning
Fail_goes_on(at) ==
    /\ result' = [kind |-> "error", at |-> at]
    /\ pc' = "log"

\* lines 139-141: except Exception: return {"error": str(e)}
Fail(at) ==
    /\ result' = [kind |-> "error", at |-> at]
    /\ pc' = "return"

\* lines 59-72: the runner calls trading_cycle; step 1 queries the positions
\* (Broker.get_positions answers [] when the client raises)
QueryPositions(a, positions) ==
    /\ pc = "idle"
    /\ UNCHANGED outside_cycle
    /\ Sum2(trades) < limit
    /\ asset' = a
    /\ open_position' = find_open_position(positions, a)
    /\ df' = NoDf
    /\ ai_decision' = NoDecision
    /\ executed' = NoExecution
    /\ orders' = <<>>
    /\ result' = NoResult
    /\ start' = [ledger |-> Len(ledger[a]), reflections |-> Len(reflections[a]),
                 trades |-> trades[a]]
    /\ answers' = [NoAnswers EXCEPT !.queries = 1]
    /\ pc' = "fetch"
    /\ UNCHANGED <<trades, ledger, reflections, limit>>

\* FetchData without the df.empty check of line 77
FetchData_unchecked(raises, bars) ==
    /\ pc = "fetch"
    /\ UNCHANGED outside_cycle
    /\ answers' = [answers EXCEPT !.data = IF raises THEN "raise"
                                           ELSE IF bars.n = 0 THEN "empty"
                                           ELSE "bars"]
    /\ IF raises
       THEN Fail("data") /\ UNCHANGED df
       ELSE df' = bars /\ pc' = "indicators" /\ UNCHANGED result
    /\ UNCHANGED <<asset, open_position, ai_decision, executed, orders,
                   trades, ledger, reflections, start, limit>>

\* lines 74-78: get_historical_data raises, or returns a frame; empty raises
FetchData(raises, bars) ==
    /\ pc = "fetch"
    /\ UNCHANGED outside_cycle
    /\ answers' = [answers EXCEPT !.data = IF raises THEN "raise"
                                           ELSE IF bars.n = 0 THEN "empty"
                                           ELSE "bars"]
    /\ IF raises \/ bars.n = 0
       THEN Fail("data") /\ UNCHANGED df
       ELSE df' = bars /\ pc' = "indicators" /\ UNCHANGED result
    /\ UNCHANGED <<asset, open_position, ai_decision, executed, orders,
                   trades, ledger, reflections, start, limit>>

\* lines 80-84: add_indicators and summarize_for_ai; on a series shorter than
\* an indicator window the indicator library either yields no column (the
\* subscript raises) or a column of NaN (every row is dropped)
ComputeIndicators(short_raises) ==
    /\ pc = "indicators"
    /\ UNCHANGED outside_cycle
    /\ IF df.n < MinBars /\ short_raises
       THEN Fail("indicators") /\ UNCHANGED df
       ELSE df' = add_indicators(df) /\ pc' = "decide" /\ UNCHANGED result
    /\ UNCHANGED <<asset, open_position, ai_decision, executed, orders,
                   trades, ledger, reflections, start, answers, limit>>

\* Decide with an error answer turned into HOLD with sizing 0 instead of
\* ending the cycle
Decide_normalizing(outcome, raw) ==
    /\ pc = "decide"
    /\ UNCHANGED outside_cycle
    /\ answers' = [answers EXCEPT !.decision = outcome, !.queries = @ + 1,
                                  !.keys = IF outcome = "parsed" THEN raw.keys
                                           ELSE {}]
    /\ ai_decision' = IF outcome \in DecisionErrors
                      THEN [recommendation |-> "HOLD", position_sizing |-> Num(0)]
                      ELSE set_defaults(raw)
    /\ pc' = "reconcile"
    /\ UNCHANGED <<asset, open_position, df, executed, orders, result,
                   trades, ledger, reflections, start, limit>>

\* lines 86-92: the positions are queried a second time for the prompt,
\* then the decision call; an error answer ends the cycle at once
\* with an error descriptor
Decide(outcome, raw) ==
    /\ pc = "decide"
    /\ UNCHANGED outside_cycle
    /\ answers' = [answers EXCEPT !.decision = outcome, !.queries = @ + 1,
                                  !.keys = IF outcome = "parsed" THEN raw.keys
                                           ELSE {}]
    /\ IF outcome \in DecisionErrors
       THEN /\ result' = [kind |-> "error", at |-> "decision"]
            /\ pc' = "return"
            /\ UNCHANGED ai_decision
       ELSE /\ ai_decision' = set_defaults(raw)
            /\ pc' = "reconcile"
            /\ UNCHANGED result
    /\ UNCHANGED <<asset, open_position, df, executed, orders,
                   trades, ledger, reflections, start, limit>>

\* Broker.submit_market_order: the client's answer, or {"error": ...}
submit_market_order(qty, side, response) ==
    IF response.kind = "raise"
    THEN [kind |-> "error", qty |-> 0, price |-> 0]
    ELSE [kind |-> response.kind, qty |-> qty, price |-> response.price]

\* Submit handing the order to the broker a second time
Submit_again(qty, side, equity, response) ==
    /\ orders' = orders \o << [symbol |-> asset, qty |-> qty, side |-> side],
                              [symbol |-> asset, qty |-> qty, side |-> side] >>
    /\ executed' = submit_market_order(qty, side, response)
    /\ answers' = [answers EXCEPT !.equity = equity, !.order = response.kind]
    /\ pc' = "log"
    /\ UNCHANGED result

\* one call of self.broker.submit_market_order(self.asset, qty, side)
Submit(qty, side, equity, response) ==
    /\ orders' = Append(orders, [symbol |-> asset, qty |-> qty, side |-> side])
    /\ executed' = submit_market_order(qty, side, response)
    /\ answers' = [answers EXCEPT !.equity = equity, !.order = response.kind]
    /\ pc' = "log"
    /\ UNCHANGED result

\* line 96: executed = {"info": "No trade triggered."}
NoTrade ==
    /\ executed' = [kind |-> "info", qty |-> 0, price |-> 0]
    /\ pc' = "log"
    /\ UNCHANGED <<orders, result, answers>>

\* ReconcileOpen without the test of the open side: BUY and SELL are
\* submitted for the position's quantity whatever the side
ReconcileOpen_anyside(action, response) ==
    IF ~open_position.isdict
    THEN Fail("reconcile") /\ UNCHANGED <<executed, orders, answers>>
    ELSE IF action \in {"BUY", "SELL"}
         THEN Submit(Abs(open_position.qty), action, Null, response)
         ELSE NoTrade

\* lines 99-108: a position is open
ReconcileOpen(action, response) ==
    IF ~open_position.isdict
    THEN \* line 102: open_position.get on an object
         Fail("reconcile") /\ UNCHANGED <<executed, orders, answers>>
    ELSE LET side == lower_side(open_position.side)
             pos_qty == Abs(open_position.qty)
         IN  IF side = "long" /\ action = "SELL"
             THEN Submit(pos_qty, "SELL", Null, response)
             ELSE IF side = "short" /\ action = "BUY"
             THEN Submit(pos_qty, "BUY", Null, response)
             ELSE NoTrade

\* lines 109-117: no position is open
ReconcileFlat(action, position_sizing, equity, response) ==
    IF action \in {"BUY", "SELL"} /\ position_sizing > 0
    THEN IF equity = Null
         THEN \* line 113: account is None
              /\ Fail("reconcile")
              /\ answers' = [answers EXCEPT !.equity = Null, !.order = "no account"]
              /\ UNCHANGED <<executed, orders>>
         ELSE IF df.n = 0
         THEN \* line 115: iloc[-1] on a frame with no rows
              /\ Fail("reconcile")
              /\ answers' = [answers EXCEPT !.equity = equity]
              /\ UNCHANGED <<executed, orders>>
         ELSE Submit(order_qty(equity[1], position_sizing, df.close), action,
                     equity, response)
    ELSE NoTrade

\* lines 94-117
Reconcile(equity, response) ==
    /\ pc = "reconcile"
    /\ UNCHANGED outside_cycle
    /\ IF ai_decision.position_sizing = Null
       THEN \* line 95: float(None)
            Fail("reconcile") /\ UNCHANGED <<executed, orders, answers>>
       ELSE IF open_position # NoPosition
            THEN ReconcileOpen(ai_decision.recommendation, response)
            ELSE ReconcileFlat(ai_decision.recommendation,
                               ai_decision.position_sizing[1], equity,
                               response)
    /\ UNCHANGED <<asset, open_position, df, ai_decision,
                   trades, ledger, reflections, start, limit>>

\* log_trade: one row is appended to the CSV file
log_trade(rows, exec) == Append(rows, csv_row(exec))

\* lines 119-127: history.record (which appends in memory and calls
\* log_trade), then log_trade again; record.get("executed", {}).get("qty")
\* raises on an order object
LogTrade ==
    /\ pc = "log"
    /\ UNCHANGED outside_cycle
    /\ trades' = [trades EXCEPT ![asset] = @ + 1]
    /\ IF executed.kind = "object"
       THEN Fail("log") /\ UNCHANGED ledger
       ELSE /\ ledger' = [ledger EXCEPT
                            ![asset] = log_trade(log_trade(@, executed), executed)]
            /\ pc' = "reflect"
            /\ UNCHANGED result
    /\ UNCHANGED <<asset, open_position, df, ai_decision, executed, orders,
                   reflections, start, answers, limit>>

\* lines 133-135: the prompt, the model call (which never raises: an error
\* descriptor is what gets logged) and log_reflection, which may raise
RunReflection(model_ok, persist_ok) ==
    IF persist_ok
    THEN /\ reflections' = [reflections EXCEPT ![asset] =
                               Append(@, IF model_ok THEN "reflection" ELSE "error")]
         /\ answers' = [answers EXCEPT !.reflection =
                               IF model_ok THEN "logged" ELSE "model error"]
         /\ result' = [kind |-> "record", at |-> ""]
         /\ pc' = "return"
    ELSE /\ Fail("reflect")
         /\ answers' = [answers EXCEPT !.reflection = "persist raised"]
         /\ UNCHANGED reflections

\* lines 129-137: statistics, the reflection when due, return trade_record
Reflect(model_ok, persist_ok) ==
    /\ pc = "reflect"
    /\ UNCHANGED outside_cycle
    /\ LET stats == trade_performance_stats(ledger[asset])
       IN  IF stats.raises
           THEN /\ Fail("reflect")
                /\ answers' = [answers EXCEPT !.reflection = "stats raised"]
                /\ UNCHANGED reflections
           ELSE IF reflection_due(stats.total_trades)
                THEN RunReflection(model_ok, persist_ok)
                ELSE /\ result' = [kind |-> "record", at |-> ""]
                     /\ pc' = "return"
                     /\ answers' = [answers EXCEPT !.reflection = "not due"]
                     /\ UNCHANGED reflections
    /\ UNCHANGED <<asset, open_position, df, ai_decision, executed, orders,
                   trades, ledger, start, limit>>

\* the caller receives the result; the locals of the call are gone
CycleReturn ==
    /\ pc = "return"
    /\ UNCHANGED outside_cycle
    /\ pc' = "idle"
    /\ asset' = <<>>
    /\ open_position' = NoPosition
    /\ df' = NoDf
    /\ ai_decision' = NoDecision
    /\ executed' = NoExecution
    /\ orders' = <<>>
    /\ result' = NoResult
    /\ start' = NoStart
    /\ answers' = NoAnswers
    /\ UNCHANGED <<trades, ledger, reflections, limit>>

Next ==
    \/ \E a \in ASSETS, positions \in PositionLists : QueryPositions(a, positions)
    \/ \E raises \in BOOLEAN, bars \in Bars : FetchData(raises, bars)
    \/ \E short_raises \in BOOLEAN : ComputeIndicators(short_raises)
    \/ \E outcome \in DecisionOutcomes, raw \in RawDecisions :
          Decide(outcome, raw)
    \/ \E equity \in Equities, response \in OrderResponses :
          Reconcile(equity, response)
    \/ LogTrade
    \/ \E model_ok \in BOOLEAN, persist_ok \in BOOLEAN : Reflect(model_ok, persist_ok)
    \/ CycleReturn

Spec == Init /\ [][Next]_vars

-----------------------------------------------------------------------------
(* Long runs: no position is ever open and the ports answer in fewer ways, *)
(* so that a run is long enough to reach the reflection.                   *)

LongBars == { NoDf, [n |-> 50, close |-> 200] }
LongDecisions ==
    { [keys |-> {"recommendation", "position_sizing"},
       recommendation |-> "HOLD", position_sizing |-> Num(0)],
      [keys |-> {"recommendation", "position_sizing"},
       recommendation |-> "BUY", position_sizing |-> Num(15)] }
LongResponses == { [kind |-> "dict", price |-> 200], [kind |-> "raise", price |-> 0] }

LongInit ==
    /\ pc = "idle"
    /\ OutsideIdle
    /\ asset = <<>>
    /\ open_position = NoPosition
    /\ df = NoDf
    /\ ai_decision = NoDecision
    /\ executed = NoExecution
    /\ orders = <<>>
    /\ result = NoResult
    /\ trades = [a \in ASSETS |-> 0]
    /\ ledger = [a \in ASSETS |-> <<>>]
    /\ reflections = [a \in ASSETS |-> <<>>]
    /\ start = NoStart
    /\ answers = NoAnswers
    /\ limit = MaxLongCycles

LongNext ==
    \/ \E a \in ASSETS : QueryPositions(a, <<>>)
    \/ \E bars \in LongBars : FetchData(FALSE, bars)
    \/ ComputeIndicators(FALSE)
    \/ \E outcome \in {"parsed", "no_json"}, raw \in LongDecisions :
          Decide(outcome, raw)
    \/ \E response \in LongResponses : Reconcile(Num(10000), response)
    \/ LogTrade
    \/ \E model_ok \in BOOLEAN, persist_ok \in BOOLEAN : Reflect(model_ok, persist_ok)
    \/ CycleReturn

LongSpec == LongInit /\ [][LongNext]_vars

-----------------------------------------------------------------------------
(* The sequential runner: run_all_trading_loops of main.py.  One round     *)
(* runs the cycle of every asset in the order of Config.ASSETS, then       *)
(* sleeps.  trading_cycle is a call: the runner waits in "cycle" until it  *)
(* returns a record or an error descriptor (it catches every Exception).   *)

\* Config.ASSETS as the list it is: the order of strategies.items()
AssetList == <<BTCUSD, SOLUSD>>

\* Config.TRADING_CYCLE_INTERVAL, the default wait of a round in seconds
TRADING_CYCLE_INTERVAL == 900
\* line 19: 5 <= next_cycle
MinCycleSeconds == 5

\* ai_decision["next_cycle_seconds"] as the JSON of the model may hold it:
\* null, an integer, a float, a string or a boolean (True is 1)
NoOverride == [type |-> "none", value |-> 0]
Overrides ==
    { NoOverride }
    \cup { [type |-> "int", value |-> v] : v \in {4, 5, 60, 899, 900, 1000} }
    \cup { [type |-> "float", value |-> 60], [type |-> "str", value |-> 60],
           [type |-> "bool", value |-> 1] }

\* what trading_cycle returns to the runner: the trade record with its
\* ai_decision, or {"error": ...}
CycleResults ==
    { [kind |-> "error", next_cycle_seconds |-> NoOverride] }
    \cup { [kind |-> "record", next_cycle_seconds |-> o] : o \in Overrides }

\* lines 16-17: result.get("ai_decision", {}).get("next_cycle_seconds")
next_cycle_of(res) ==
    IF res.kind = "record" THEN res.next_cycle_seconds ELSE NoOverride

\* isinstance(next_cycle, int): bool is a subclass of int
isinstance_int(o) == o.type \in {"int", "bool"}

\* next_min_sleep with the override compared with the default of the round
\* instead of the smallest override so far
next_min_sleep_last(current, res) ==
    LET next_cycle == next_cycle_of(res)
    IN  IF /\ isinstance_int(next_cycle)
           /\ MinCycleSeconds <= next_cycle.value
           /\ next_cycle.value < TRADING_CYCLE_INTERVAL
        THEN next_cycle.value
        ELSE current

\* lines 16-20: min_sleep after the result of one cycle
next_min_sleep(current, res) ==
    LET next_cycle == next_cycle_of(res)
    IN  IF /\ isinstance_int(next_cycle)
           /\ MinCycleSeconds <= next_cycle.value
           /\ next_cycle.value < current
        THEN next_cycle.value
        ELSE current

SeqInit ==
    /\ pc = "idle"
    /\ asset = <<>>
    /\ open_position = NoPosition
    /\ df = NoDf
    /\ ai_decision = NoDecision
    /\ executed = NoExecution
    /\ orders = <<>>
    /\ result = NoResult
    /\ trades = [a \in ASSETS |-> 0]
    /\ ledger = [a \in ASSETS |-> <<>>]
    /\ reflections = [a \in ASSETS |-> <<>>]
    /\ start = NoStart
    /\ answers = NoAnswers
    /\ limit = 0
    /\ BrokerIdle
    /\ WebIdle
    /\ FileIdle
    /\ IndicatorIdle
    /\ loop_pc = "round"
    /\ loop_index = 0
    /\ min_sleep = 0
    /\ round_results = <<>>
    /\ slept = Null

\* lines 9-11: a round begins
RoundStart ==
    /\ loop_pc = "round"
    /\ min_sleep' = TRADING_CYCLE_INTERVAL
    /\ loop_index' = 1
    /\ round_results' = <<>>
    /\ loop_pc' = "call"
    /\ UNCHANGED <<slept, cycle_vars, broker_vars, web_vars, file_vars,
                   indicator_vars>>

\* lines 12-13: strat.trading_cycle() is called
CallCycle ==
    /\ loop_pc = "call"
    /\ loop_pc' = "cycle"
    /\ UNCHANGED <<loop_index, min_sleep, round_results, slept, cycle_vars,
                   broker_vars, web_vars, file_vars, indicator_vars>>

\* CycleReturns with an error descriptor ending the runner
CycleReturns_abort(res) ==
    /\ loop_pc = "cycle"
    /\ round_results' = Append(round_results, res)
    /\ min_sleep' = next_min_sleep(min_sleep, res)
    /\ IF res.kind = "error"
       THEN loop_pc' = "crashed" /\ UNCHANGED <<loop_index, slept>>
       ELSE IF loop_index < Len(AssetList)
            THEN loop_index' = loop_index + 1 /\ loop_pc' = "call"
                 /\ UNCHANGED slept
            ELSE loop_pc' = "sleep" /\ slept' = Num(min_sleep')
                 /\ UNCHANGED loop_index
    /\ UNCHANGED <<cycle_vars, broker_vars, web_vars, file_vars, indicator_vars>>

\* lines 13-22: trading_cycle returns; the override is looked at; the next
\* asset is run, or after the last one time.sleep(min_sleep) is called
CycleReturns(res) ==
    /\ loop_pc = "cycle"
    /\ round_results' = Append(round_results, res)
    /\ min_sleep' = next_min_sleep(min_sleep, res)
    /\ IF loop_index < Len(AssetList)
       THEN loop_index' = loop_index + 1 /\ loop_pc' = "call"
            /\ UNCHANGED slept
       ELSE loop_pc' = "sleep" /\ slept' = Num(min_sleep')
            /\ UNCHANGED loop_index
    /\ UNCHANGED <<cycle_vars, broker_vars, web_vars, file_vars, indicator_vars>>

\* line 22: time.sleep returns
Wake ==
    /\ loop_pc = "sleep"
    /\ loop_pc' = "round"
    /\ UNCHANGED <<loop_index, min_sleep, round_results, slept, cycle_vars,
                   broker_vars, web_vars, file_vars, indicator_vars>>

\* lines 23-24: KeyboardInterrupt, wherever the runner is
Interrupt ==
    /\ loop_pc \in {"round", "call", "cycle", "sleep"}
    /\ loop_pc' = "stopped"
    /\ UNCHANGED <<loop_index, min_sleep, round_results, slept, cycle_vars,
                   broker_vars, web_vars, file_vars, indicator_vars>>

SeqNext ==
    \/ RoundStart
    \/ CallCycle
    \/ \E res \in CycleResults : CycleReturns(res)
    \/ Wake
    \/ Interrupt

SeqSpec == SeqInit /\ [][SeqNext]_vars

\* the runner's process is scheduled, every trading_cycle call returns and
\* every sleep ends; a keyboard interrupt need not come
SeqFairSpec ==
    /\ SeqSpec
    /\ WF_vars(RoundStart)
    /\ WF_vars(CallCycle)
    /\ WF_vars(\E res \in CycleResults : CycleReturns(res))
    /\ WF_vars(Wake)

-----------------------------------------------------------------------------
(* The control channel: ws_asset of web.py.  Every accepted connection     *)
(* runs ws_asset with its own strategy, paused flag, interval and          *)
(* trading_loop task.  All of them run on one event loop: a coroutine runs *)
(* until its next await, and strategy.trading_cycle() is a plain call, so  *)
(* while a cycle is in progress no other coroutine of the process runs.    *)
(* That holds for receive_text too: a message is received only while no   *)
(* cycle is in progress.                                                   *)

\* the clock: time.time() advances by TickSeconds up to MaxNow
TickSeconds == 60
MaxNow == 60

\* line 51 and line 52
DefaultInterval == 300
allowed_intervals == {60, 300, 900, 1800, 3600}

\* data["interval"] as the JSON may hold it: an integer, a float (whole
\* part and whether a fraction follows), a string that is no number, or no
\* such key
IntervalValues ==
    { [type |-> "int", whole |-> 60, frac |-> FALSE],
      [type |-> "int", whole |-> 45, frac |-> FALSE],
      [type |-> "float", whole |-> 60, frac |-> TRUE],
      [type |-> "text", whole |-> 0, frac |-> FALSE] }
NoValue == [type |-> "missing", whole |-> 0, frac |-> FALSE]

\* what receive_text does: it returns a pause, a resume or a set_interval,
\* or raises WebSocketDisconnect
Messages ==
    { [action |-> a, interval |-> NoValue] :
        a \in {"pause", "resume", "disconnect"} }
    \cup { [action |-> "set_interval", interval |-> v] : v \in IntervalValues }

\* line 111: int(data["interval"]) raises on a missing key, on text and on
\* a string with a fraction; it cuts the fraction of a float
int_raises(v) ==
    \/ v.type \in {"missing", "text"}
    \/ (v.type = "str" /\ v.frac)

int_of(v) == v.whole

\* lines 109-117: the interval after a set_interval message
accepted_interval(v) == ~int_raises(v) /\ int_of(v) \in allowed_intervals

\* intervals.set_interval: load_intervals, intervals[asset] = interval,
\* save_intervals
set_interval(settings, a, value) == [settings EXCEPT ![a] = Num(value)]

\* intervals.get_interval(asset, default=60)
get_interval(settings, a) == IF settings[a] = Null THEN 60 ELSE settings[a][1]

WebInit ==
    /\ pc = "idle"
    /\ asset = <<>>
    /\ open_position = NoPosition
    /\ df = NoDf
    /\ ai_decision = NoDecision
    /\ executed = NoExecution
    /\ orders = <<>>
    /\ result = NoResult
    /\ trades = [a \in ASSETS |-> 0]
    /\ ledger = [a \in ASSETS |-> <<>>]
    /\ reflections = [a \in ASSETS |-> <<>>]
    /\ start = NoStart
    /\ answers = NoAnswers
    /\ limit = 0
    /\ BrokerIdle
    /\ RunnerIdle
    /\ FileIdle
    /\ IndicatorIdle
    /\ ws = [c \in Conns |-> NoConn]
    /\ now = 0
    /\ interval_settings = [a \in ASSETS |-> Null]
    /\ control = [a \in ASSETS |-> ""]
    /\ received = NoMessage

\* no coroutine is inside strategy.trading_cycle(): the event loop can run
LoopFree == \A c \in Conns : ~ws[c].in_cycle

Open(c) == ws[c].state = "open"
Due(c) == Open(c) /\ ws[c].task = "alive" /\ ~ws[c].paused
          /\ now >= ws[c].next_run

web_frame == <<cycle_vars, broker_vars, runner_vars, file_vars, indicator_vars>>

\* lines 45-52, 84, 97: a connection is accepted and its task created
Accept(c, a) ==
    /\ LoopFree
    /\ ws[c].state = "closed"
    /\ ws' = [ws EXCEPT ![c] =
                [state |-> "open", asset |-> a, paused |-> FALSE,
                 interval |-> DefaultInterval, next_run |-> now,
                 cycle_now |-> 0, task |-> "alive", in_cycle |-> FALSE,
                 last_start |-> Null, last_interval |-> 0]]
    /\ received' = NoMessage
    /\ UNCHANGED <<now, interval_settings, control, web_frame>>

\* time passes
Tick ==
    /\ now < MaxNow
    /\ now' = now + TickSeconds
    /\ received' = NoMessage
    /\ UNCHANGED <<ws, interval_settings, control, web_frame>>

\* CycleStart on an event loop that runs the loops of other connections
\* while a cycle is in progress
CycleStart_async(c) ==
    /\ Due(c)
    /\ ~ws[c].in_cycle
    /\ ws' = [ws EXCEPT ![c].in_cycle = TRUE, ![c].cycle_now = now]
    /\ received' = NoMessage
    /\ UNCHANGED <<now, interval_settings, control, web_frame>>

\* lines 85-91: an iteration of trading_loop that is not paused and due
\* calls strategy.trading_cycle()
CycleStart(c) ==
    /\ LoopFree
    /\ Due(c)
    /\ ws' = [ws EXCEPT ![c].in_cycle = TRUE, ![c].cycle_now = now]
    /\ received' = NoMessage
    /\ UNCHANGED <<now, interval_settings, control, web_frame>>

\* CycleEnd scheduling the next run one interval after the run time that
\* was scheduled, not after the time the cycle started
CycleEnd_fixed_rate(c, send_ok) ==
    /\ ws[c].in_cycle
    /\ ws' = [ws EXCEPT ![c].in_cycle = FALSE,
                        ![c].next_run = ws[c].next_run + ws[c].interval,
                        ![c].cycle_now = 0,
                        ![c].last_start = Num(ws[c].cycle_now),
                        ![c].last_interval = ws[c].interval,
                        ![c].task = IF send_ok THEN "alive" ELSE "failed"]
    /\ received' = NoMessage
    /\ UNCHANGED <<now, interval_settings, control, web_frame>>

\* lines 91-95: trading_cycle returns, the next run is scheduled and the
\* dashboard update is sent; when the send raises the task ends
\* (last_start, last_interval: the start of the cycle that returned and
\* the interval its successor was scheduled with)
CycleEnd(c, send_ok) ==
    /\ ws[c].in_cycle
    /\ ws' = [ws EXCEPT ![c].in_cycle = FALSE,
                        ![c].next_run = ws[c].cycle_now + ws[c].interval,
                        ![c].cycle_now = 0,
                        ![c].last_start = Num(ws[c].cycle_now),
                        ![c].last_interval = ws[c].interval,
                        ![c].task = IF send_ok THEN "alive" ELSE "failed"]
    /\ received' = NoMessage
    /\ UNCHANGED <<now, interval_settings, control, web_frame>>

\* lines 85-95: an iteration of trading_loop that is paused or not due only
\* sends the dashboard update; when the send raises the task ends
LoopIteration(c, send_ok) ==
    /\ LoopFree
    /\ Open(c)
    /\ ws[c].task = "alive"
    /\ ~Due(c)
    /\ ws' = [ws EXCEPT ![c].task = IF send_ok THEN "alive" ELSE "failed"]
    /\ received' = NoMessage
    /\ UNCHANGED <<now, interval_settings, control, web_frame>>

\* lines 99-121: receive_text returns a message, or raises
\* WebSocketDisconnect and the task is cancelled; every other exception
\* (int() raising, set_interval raising after the interval was assigned,
\* the update not sent) is swallowed
Handle(c, msg, store_ok) ==
    /\ LoopFree
    /\ Open(c)
    /\ received' = [conn |-> c, action |-> msg.action, interval |-> msg.interval]
    /\ LET a == ws[c].asset
       IN  CASE msg.action = "disconnect" ->
                  /\ ws' = [ws EXCEPT ![c] = NoConn]
                  /\ UNCHANGED <<interval_settings, control>>
             [] msg.action = "pause" ->
                  /\ ws' = [ws EXCEPT ![c].paused = TRUE]
                  /\ control' = [control EXCEPT ![a] = "pause"]
                  /\ UNCHANGED interval_settings
             [] msg.action = "resume" ->
                  /\ ws' = [ws EXCEPT ![c].paused = FALSE]
                  /\ control' = [control EXCEPT ![a] = "resume"]
                  /\ UNCHANGED interval_settings
             [] msg.action = "set_interval"
                  /\ accepted_interval(msg.interval) ->
                  /\ ws' = [ws EXCEPT ![c].interval = int_of(msg.interval)]
                  /\ interval_settings' =
                        IF store_ok
                        THEN set_interval(interval_settings, a,
                                          int_of(msg.interval))
                        ELSE interval_settings
                  /\ UNCHANGED control
             [] OTHER -> UNCHANGED <<ws, interval_settings, control>>
    /\ UNCHANGED <<now, web_frame>>

\* the process is started again: every connection and task is gone, the
\* interval file is still there
ProcessRestart ==
    /\ \E c \in Conns : Open(c)
    /\ ws' = [c \in Conns |-> NoConn]
    /\ control' = [a \in ASSETS |-> ""]
    /\ received' = NoMessage
    /\ UNCHANGED <<now, interval_settings, web_frame>>

\* two connections, which pause, resume, set the interval to 60 s and close
WebMessages ==
    { m \in Messages :
        m.action = "set_interval" => m.interval.type = "int" /\ m.interval.whole = 60 }

WebNext ==
    \/ \E c \in Conns, a \in ASSETS : Accept(c, a)
    \/ Tick
    \/ \E c \in Conns : CycleStart(c)
    \/ \E c \in Conns, send_ok \in BOOLEAN : CycleEnd(c, send_ok)
    \/ \E c \in Conns, send_ok \in BOOLEAN : LoopIteration(c, send_ok)
    \/ \E c \in Conns, msg \in WebMessages : Handle(c, msg, TRUE)
    \/ ProcessRestart

WebSpec == WebInit /\ [][WebNext]_vars

\* one connection at a time, which may send every message, over an
\* interval file that may fail to be written
ControlNext ==
    \/ \E a \in ASSETS : Accept(1, a)
    \/ Tick
    \/ CycleStart(1)
    \/ \E send_ok \in BOOLEAN : CycleEnd(1, send_ok)
    \/ \E send_ok \in BOOLEAN : LoopIteration(1, send_ok)
    \/ \E msg \in Messages, store_ok \in BOOLEAN : Handle(1, msg, store_ok)
    \/ ProcessRestart

ControlSpec == WebInit /\ [][ControlNext]_vars

-----------------------------------------------------------------------------
(* One timed runner on a clock that runs long enough for a paused runner   *)
(* to miss more than one of its run times.                                 *)

\* the clock of the long run
MaxLateNow == 180

\* time passes after MaxNow
LateTick ==
    /\ now >= MaxNow
    /\ now < MaxLateNow
    /\ now' = now + TickSeconds
    /\ received' = NoMessage
    /\ UNCHANGED <<ws, interval_settings, control, web_frame>>

TimerNext ==
    \/ \E a \in ASSETS : Accept(1, a)
    \/ Tick
    \/ LateTick
    \/ CycleStart(1)
    \/ CycleEnd(1, TRUE)
    \/ LoopIteration(1, TRUE)
    \/ \E msg \in WebMessages : Handle(1, msg, TRUE)

TimerSpec == WebInit /\ [][TimerNext]_vars

-----------------------------------------------------------------------------
(* The trade log file: log_trade and load_trade_log.  The file of an asset *)
(* is a sequence of lines.  Nothing of it is kept in memory between calls, *)
(* so a restart of the process loses only what was loaded.                 *)

\* rows appended to the file of one asset
MaxRows == 3

\* the records handed to log_trade: their timestamp and executed.qty (None
\* when there was no order)
LogRecords == [timestamp : {1, 2}, qty : {Null, Num(5)}]

\* the line of TRADE_LOG_HEADER
HeaderLine == [kind |-> "header", timestamp |-> 0, qty |-> "qty"]

\* a field as text: None is written as the empty field
field_text(x) == IF x = Null THEN "" ELSE IF x = Num(5) THEN "5" ELSE "?"
\* a field read back: the empty field is NaN, digits are a number, other
\* text stays text
field_value(t) == IF t = "5" THEN Num(5) ELSE IF t = "" THEN Null ELSE <<t>>

\* lines 33-46: the record flattened to the row of the CSV file
trade_row(rec) ==
    [kind |-> "row", timestamp |-> rec.timestamp, qty |-> field_text(rec.qty)]

\* to_csv writing the header with every row
to_csv_with_header(file, row) ==
    [exists |-> TRUE, lines |-> file.lines \o <<HeaderLine, row>>]

\* lines 29-30 and 48-54: the row is appended to an existing file; a new
\* file gets the header first
to_csv(file, row) ==
    IF file.exists
    THEN [exists |-> TRUE, lines |-> Append(file.lines, row)]
    ELSE [exists |-> TRUE, lines |-> <<HeaderLine, row>>]

\* pd.read_csv: the first line names the columns, every other line is a
\* row, whatever it holds; a file without any line raises EmptyDataError
read_csv(file) ==
    IF file.lines = <<>>
    THEN [raises |-> TRUE, rows |-> <<>>]
    ELSE [raises |-> FALSE,
          rows |-> [i \in 1..(Len(file.lines) - 1) |->
                      [timestamp |-> file.lines[i + 1].timestamp,
                       qty |-> field_value(file.lines[i + 1].qty)]]]

\* load_trade_log without the test that the file exists
load_trade_log_unchecked(file) == read_csv(file)

\* load_trade_log: an empty frame when there is no file
load_trade_log(file) ==
    IF ~file.exists THEN [raises |-> FALSE, rows |-> <<>>] ELSE read_csv(file)

FileInit ==
    /\ pc = "idle"
    /\ asset = <<>>
    /\ open_position = NoPosition
    /\ df = NoDf
    /\ ai_decision = NoDecision
    /\ executed = NoExecution
    /\ orders = <<>>
    /\ result = NoResult
    /\ trades = [a \in ASSETS |-> 0]
    /\ ledger = [a \in ASSETS |-> <<>>]
    /\ reflections = [a \in ASSETS |-> <<>>]
    /\ start = NoStart
    /\ answers = NoAnswers
    /\ limit = 0
    /\ BrokerIdle
    /\ RunnerIdle
    /\ WebIdle
    /\ IndicatorIdle
    /\ FileIdle

file_frame == <<cycle_vars, broker_vars, runner_vars, web_vars, indicator_vars>>

\* log_trade(asset, record)
AppendTrade(a, rec) ==
    /\ Len(appended[a]) < MaxRows
    /\ log_file' = [log_file EXCEPT ![a] = to_csv(@, trade_row(rec))]
    /\ appended' = [appended EXCEPT ![a] = Append(@, rec)]
    /\ loaded' = NoLoad
    /\ UNCHANGED <<writers, file_frame>>

\* load_trade_log(asset)
LoadTrades(a) ==
    /\ LET frame == load_trade_log(log_file[a])
       IN  loaded' = [asset |-> a, raises |-> frame.raises, rows |-> frame.rows]
    /\ UNCHANGED <<log_file, appended, writers, file_frame>>

\* the process is started again: the files stay, what was loaded is gone
FileRestart ==
    /\ loaded' = NoLoad
    /\ UNCHANGED <<log_file, appended, writers, file_frame>>

FileNext ==
    \/ \E a \in ASSETS, rec \in LogRecords : AppendTrade(a, rec)
    \/ \E a \in ASSETS : LoadTrades(a)
    \/ FileRestart

FileSpec == FileInit /\ [][FileNext]_vars

-----------------------------------------------------------------------------
(* The indicator engine on a bar sequence: add_indicators computes every   *)
(* indicator column and drops the rows in which some column is NaN.        *)

\* bars in the sequence
MaxBarsLen == 60

\* ta.rsi(length=14); ta.macd: slow=26
RsiLength == 14
MacdSlow == 26

\* the close of bar i of a series that is flat before bar k and moves from
\* bar k on (k = 0: it never moves)
close_at(i, k) == IF k > 0 /\ i >= k THEN 101 + (i % 2) ELSE 100

\* bars with strictly increasing timestamps
make_bars(len, k) == [i \in 1..len |-> [timestamp |-> i, close |-> close_at(i, k)]]

ChangeAt == {0, 1, 55}
BarFrames == { make_bars(len, k) : len \in 0..MaxBarsLen, k \in ChangeAt }

\* SMA50 and EMA50 (the longest windows; SMA20, EMA20, the Bollinger bands
\* and the MACD columns are defined earlier) are NaN before row 50, on
\* every row when the series is shorter
window_defined(frame, i) == i >= MinBars

\* RSI14 = 100 * avg_gain / (avg_gain + avg_loss), the averages being
\* exponentially weighted over all earlier rows: NaN before row 15, and 0/0
\* = NaN as long as the close has never changed; with TA-Lib installed the
\* library computes it there, and a flat series gives 0
rsi_defined(frame, i, talib) ==
    /\ i > RsiLength
    /\ talib \/ \E j \in 2..i : frame[j].close # frame[j - 1].close

\* the rows of the frame at the indexes kept, in their order
RECURSIVE rows_kept(_, _, _)
rows_kept(frame, kept, i) ==
    IF i > Len(frame) THEN <<>>
    ELSE (IF i \in kept THEN <<frame[i]>> ELSE <<>>)
         \o rows_kept(frame, kept, i + 1)

\* lines 17-42: on fewer than 26 bars ta.macd returns None and line 27
\* raises; otherwise df.dropna() keeps the rows whose columns are all
\* defined
dropna(frame, talib) ==
    IF Len(frame) < MacdSlow
    THEN [called |-> TRUE, raises |-> TRUE, rows |-> <<>>]
    ELSE [called |-> TRUE, raises |-> FALSE,
          rows |-> rows_kept(frame,
                             { i \in DOMAIN frame :
                                 /\ window_defined(frame, i)
                                 /\ rsi_defined(frame, i, talib) }, 1)]

IndInit ==
    /\ pc = "idle"
    /\ asset = <<>>
    /\ open_position = NoPosition
    /\ df = NoDf
    /\ ai_decision = NoDecision
    /\ executed = NoExecution
    /\ orders = <<>>
    /\ result = NoResult
    /\ trades = [a \in ASSETS |-> 0]
    /\ ledger = [a \in ASSETS |-> <<>>]
    /\ reflections = [a \in ASSETS |-> <<>>]
    /\ start = NoStart
    /\ answers = NoAnswers
    /\ limit = 0
    /\ BrokerIdle
    /\ RunnerIdle
    /\ WebIdle
    /\ FileIdle
    /\ bar_frame \in BarFrames
    /\ aligned = NoAligned

\* add_indicators(df) is called
AddIndicators(talib) ==
    /\ ~aligned.called
    /\ aligned' = dropna(bar_frame, talib)
    /\ UNCHANGED <<bar_frame, cycle_vars, broker_vars, runner_vars, web_vars,
                   file_vars>>

IndNext == \E talib \in BOOLEAN : AddIndicators(talib)

IndSpec == IndInit /\ [][IndNext]_vars

-----------------------------------------------------------------------------
(* Cycles against a broker that holds positions: what the position query   *)
(* answers is what the broker holds, unless the query fails, and an order   *)
(* the broker accepts changes what it holds.                                *)

\* cycles in a run against the broker
MaxBrokerCycles == 2

\* a symbol without its separators
unseparated(s) == SelectSeq(s, LAMBDA c : c \notin {"/", "-", "_"})

\* the positions the broker may hold in asset a, in each of its spellings
HeldPositions(a) ==
    { p \in Positions : unseparated(upper(p.symbol)) = unseparated(a) }

\* client.get_all_positions(): the open positions of the account
get_all_positions(h) ==
    SelectSeq(<<h[BTCUSD], h[SOLUSD]>>, LAMBDA p : p # NoPosition)

\* Broker.get_positions: [] when the client raises
get_positions(h, fails) == IF fails THEN <<>> ELSE get_all_positions(h)

\* the position after the broker has executed a market order on it
position_after(pos, order, isdict) ==
    LET signed == pos.qty + (IF order.side = "BUY" THEN order.qty ELSE -order.qty)
    IN  IF signed = 0 THEN NoPosition
        ELSE [symbol |-> IF pos = NoPosition THEN order.symbol ELSE pos.symbol,
              side |-> IF signed > 0 THEN "long" ELSE "short",
              qty |-> signed,
              isdict |-> IF pos = NoPosition THEN isdict ELSE pos.isdict]

BrokerDecisions ==
    { [keys |-> {"recommendation", "position_sizing"},
       recommendation |-> r, position_sizing |-> Num(15)] : r \in {"BUY", "SELL"} }
    \cup
    { [keys |-> {"recommendation", "position_sizing"},
       recommendation |-> "HOLD", position_sizing |-> Num(0)] }

BrokerInit ==
    /\ pc = "idle"
    /\ asset = <<>>
    /\ open_position = NoPosition
    /\ df = NoDf
    /\ ai_decision = NoDecision
    /\ executed = NoExecution
    /\ orders = <<>>
    /\ result = NoResult
    /\ trades = [a \in ASSETS |-> 0]
    /\ ledger = [a \in ASSETS |-> <<>>]
    /\ reflections = [a \in ASSETS |-> <<>>]
    /\ start = NoStart
    /\ answers = NoAnswers
    /\ limit = MaxBrokerCycles
    /\ held \in { h \in [ASSETS -> Positions \cup {NoPosition}] :
                    \A a \in ASSETS : h[a] \in HeldPositions(a) \cup {NoPosition} }
    /\ filled = FALSE
    /\ port_positions = <<>>
    /\ RunnerIdle
    /\ WebIdle
    /\ FileIdle
    /\ IndicatorIdle

\* the broker executes the market order it accepted
Fill(isdict) ==
    /\ pc = "log"
    /\ ~filled
    /\ executed.kind \in {"dict", "object"}
    /\ held' = [held EXCEPT ![asset] =
                   position_after(@, orders[Len(orders)], isdict)]
    /\ filled' = TRUE
    /\ UNCHANGED <<port_positions, cycle_vars, runner_vars, web_vars, file_vars, indicator_vars>>

\* the cycle has returned: no order is in progress
Settled ==
    /\ pc = "idle"
    /\ filled
    /\ filled' = FALSE
    /\ UNCHANGED <<held, port_positions, cycle_vars, runner_vars, web_vars, file_vars,
                   indicator_vars>>

BrokerNext ==
    \/ \E a \in ASSETS, fails \in BOOLEAN :
          ~filled /\ QueryPositions(a, get_positions(held, fails))
    \/ FetchData(FALSE, [n |-> 50, close |-> 200])
    \/ ComputeIndicators(FALSE)
    \/ \E raw \in BrokerDecisions : Decide("parsed", raw)
    \/ \E response \in LongResponses : Reconcile(Num(10000), response)
    \/ \E isdict \in BOOLEAN : Fill(isdict)
    \/ LogTrade
    \/ Reflect(TRUE, TRUE)
    \/ CycleReturn
    \/ Settled

BrokerSpec == BrokerInit /\ [][BrokerNext]_vars

-----------------------------------------------------------------------------
(* The sequential runner with the steps of its cycle: a keyboard interrupt *)
(* is raised in the main thread wherever it is, and trading_cycle catches  *)
(* Exception, which KeyboardInterrupt is not.                               *)

StopInit ==
    /\ pc = "idle"
    /\ asset = <<>>
    /\ open_position = NoPosition
    /\ df = NoDf
    /\ ai_decision = NoDecision
    /\ executed = NoExecution
    /\ orders = <<>>
    /\ result = NoResult
    /\ trades = [a \in ASSETS |-> 0]
    /\ ledger = [a \in ASSETS |-> <<>>]
    /\ reflections = [a \in ASSETS |-> <<>>]
    /\ start = NoStart
    /\ answers = NoAnswers
    /\ limit = MaxCycles
    /\ BrokerIdle
    /\ WebIdle
    /\ FileIdle
    /\ IndicatorIdle
    /\ loop_pc = "cycle"
    /\ loop_index = 1
    /\ min_sleep = TRADING_CYCLE_INTERVAL
    /\ round_results = <<>>
    /\ slept = Null

\* main.py lines 8-24 around strategy lines 59-141: the steps of the cycles
\* the runner calls, until the interrupt
StopNext ==
    \/ \E a \in ASSETS : loop_pc = "cycle" /\ QueryPositions(a, <<>>)
    \/ \E bars \in LongBars : loop_pc = "cycle" /\ FetchData(FALSE, bars)
    \/ loop_pc = "cycle" /\ ComputeIndicators(FALSE)
    \/ \E raw \in BrokerDecisions : loop_pc = "cycle" /\ Decide("parsed", raw)
    \/ \E response \in LongResponses :
          loop_pc = "cycle" /\ Reconcile(Num(10000), response)
    \/ loop_pc = "cycle" /\ LogTrade
    \/ loop_pc = "cycle" /\ Reflect(TRUE, TRUE)
    \/ loop_pc = "cycle" /\ CycleReturn
    \/ Interrupt

StopSpec == StopInit /\ [][StopNext]_vars

-----------------------------------------------------------------------------
(* The interval store: one JSON file holding every asset's interval.       *)
(* set_interval loads the whole file, assigns one key and writes the whole *)
(* file; nothing locks the file between the load and the save, so the      *)
(* calls of two server processes interleave.                               *)

StoredIntervals == {60, 900}

StoreInit ==
    /\ pc = "idle"
    /\ asset = <<>>
    /\ open_position = NoPosition
    /\ df = NoDf
    /\ ai_decision = NoDecision
    /\ executed = NoExecution
    /\ orders = <<>>
    /\ result = NoResult
    /\ trades = [a \in ASSETS |-> 0]
    /\ ledger = [a \in ASSETS |-> <<>>]
    /\ reflections = [a \in ASSETS |-> <<>>]
    /\ start = NoStart
    /\ answers = NoAnswers
    /\ limit = 0
    /\ BrokerIdle
    /\ RunnerIdle
    /\ FileIdle
    /\ IndicatorIdle
    /\ ws = [c \in Conns |-> NoConn]
    /\ now = 0
    /\ control = [a \in ASSETS |-> ""]
    /\ received = NoMessage
    /\ interval_settings \in [ASSETS -> {Null, Num(DefaultInterval)}]

store_frame == <<cycle_vars, broker_vars, runner_vars, indicator_vars, ws, now,
                 control, received, log_file, appended, loaded>>

\* web.py line 114: set_interval(asset, interval) is called in process w
SetIntervalCall(w, a, value) ==
    /\ writers[w].pc = "idle"
    /\ writers' = [writers EXCEPT ![w] =
                      [pc |-> "load", asset |-> a, interval |-> value,
                       intervals |-> [b \in ASSETS |-> Null]]]
    /\ UNCHANGED <<interval_settings, store_frame>>

\* lines 21-22: intervals = load_intervals(); intervals[asset] = interval
LoadIntervals(w) ==
    /\ writers[w].pc = "load"
    /\ writers' = [writers EXCEPT
                      ![w].intervals = set_interval(interval_settings,
                                                    writers[w].asset,
                                                    writers[w].interval),
                      ![w].pc = "save"]
    /\ UNCHANGED <<interval_settings, store_frame>>

\* line 23: save_intervals(intervals) writes the whole file
SaveIntervals(w) ==
    /\ writers[w].pc = "save"
    /\ interval_settings' = writers[w].intervals
    /\ writers' = [writers EXCEPT ![w].pc = "done"]
    /\ UNCHANGED store_frame

StoreNext ==
    \/ \E w \in Writers, a \in ASSETS, value \in StoredIntervals :
          SetIntervalCall(w, a, value)
    \/ \E w \in Writers : LoadIntervals(w)
    \/ \E w \in Writers : SaveIntervals(w)

StoreSpec == StoreInit /\ [][StoreNext]_vars

-----------------------------------------------------------------------------
(* The position lookup for a strategy constructed with any spelling of its *)
(* asset (ws_asset builds it from the path of the URL), on the list the    *)
(* position query returned, followed by the steps up to the order.         *)

\* one asset in upper or lower case with each separator, and another asset
MatchSymbols ==
    { b \o <<sep>> \o <<"U", "S", "D">> :
        b \in { <<"B", "T", "C">>, <<"b", "t", "c">> }, sep \in {"/", "-", "_"} }
    \cup {SOLUSD}

MatchPositions ==
    { [symbol |-> s, side |-> "long", qty |-> 2000000, isdict |-> TRUE] :
        s \in MatchSymbols }
    \cup
    { [symbol |-> s, side |-> "short", qty |-> -3000000, isdict |-> TRUE] :
        s \in MatchSymbols }

MatchInit ==
    /\ pc = "idle"
    /\ asset \in MatchSymbols
    /\ open_position = NoPosition
    /\ df = NoDf
    /\ ai_decision = NoDecision
    /\ executed = NoExecution
    /\ orders = <<>>
    /\ result = NoResult
    /\ trades = [a \in ASSETS |-> 0]
    /\ ledger = [a \in ASSETS |-> <<>>]
    /\ reflections = [a \in ASSETS |-> <<>>]
    /\ start = NoStart
    /\ answers = NoAnswers
    /\ limit = 0
    /\ held = [a \in ASSETS |-> NoPosition]
    /\ filled = FALSE
    /\ port_positions \in UNION { [1..k -> MatchPositions] : k \in 0..MaxPositions }
    /\ RunnerIdle
    /\ WebIdle
    /\ FileIdle
    /\ IndicatorIdle

\* strategy lines 63-72 for self.asset, on the list the query returned
LookUp ==
    /\ pc = "idle"
    /\ open_position' = find_open_position(port_positions, asset)
    /\ pc' = "fetch"
    /\ UNCHANGED <<asset, df, ai_decision, executed, orders, result, trades,
                   ledger, reflections, start, answers, limit, outside_cycle>>

MatchNext ==
    \/ LookUp
    \/ FetchData(FALSE, [n |-> 50, close |-> 200])
    \/ ComputeIndicators(FALSE)
    \/ \E raw \in BrokerDecisions : Decide("parsed", raw)
    \/ Reconcile(Num(10000), [kind |-> "dict", price |-> 200])

MatchSpec == MatchInit /\ [][MatchNext]_vars

-----------------------------------------------------------------------------
(* The reflection store: logs/<asset>_reflections.jsonl.  A trigger is the  *)
(* cycle reaching line 132 with a trade count that is due; log_reflection   *)
(* appends one JSON line, load_last_reflection parses the last line.        *)

\* what analyze_market_with_openai returns for the reflection prompt
reflection_of(model_ok) == [kind |-> IF model_ok THEN "reflection" ELSE "error"]

\* json.loads of a line written by json.dumps
json_loads(line) == [kind |-> line]

\* load_last_reflection reading the first line
load_last_reflection_first(exists, lines) ==
    IF ~exists \/ lines = <<>> THEN <<>> ELSE <<json_loads(lines[1])>>

\* lines 38-46: None (no row) when the file is missing or has no line
load_last_reflection(exists, lines) ==
    IF ~exists \/ lines = <<>> THEN <<>> ELSE <<json_loads(lines[Len(lines)])>>

ReflInit ==
    /\ pc = "idle"
    /\ asset = <<>>
    /\ open_position = NoPosition
    /\ df = NoDf
    /\ ai_decision = NoDecision
    /\ executed = NoExecution
    /\ orders = <<>>
    /\ result = NoResult
    /\ trades = [a \in ASSETS |-> 0]
    /\ ledger = [a \in ASSETS |-> <<>>]
    /\ reflections = [a \in ASSETS |-> <<>>]
    /\ start = NoStart
    /\ answers = NoAnswers
    /\ limit = 0
    /\ OutsideIdle

refl_frame == <<open_position, df, ai_decision, executed, orders, trades,
                ledger, limit, broker_vars, runner_vars, web_vars,
                indicator_vars, log_file, writers>>

\* strategy line 132: the trade count of the cycle of asset a is due
Trigger(a) ==
    /\ pc = "idle"
    /\ Len(reflections[a]) < MaxRows
    /\ asset' = a
    /\ start' = [ledger |-> Len(ledger[a]), reflections |-> Len(reflections[a]),
                 trades |-> trades[a]]
    /\ pc' = "reflect"
    /\ loaded' = NoLoad
    /\ UNCHANGED <<result, answers, reflections, appended, refl_frame>>

\* strategy lines 133-135 with the record handed to log_reflection
LogReflection(model_ok, persist_ok) ==
    /\ pc = "reflect"
    /\ RunReflection(model_ok, persist_ok)
    /\ appended' = IF persist_ok
                   THEN [appended EXCEPT ![asset] = Append(@, reflection_of(model_ok))]
                   ELSE appended
    /\ UNCHANGED <<asset, start, loaded, refl_frame>>

\* load_last_reflection(asset); the file may exist without any line
LoadLastReflection(a, touched) ==
    /\ pc = "idle"
    /\ loaded' = [asset |-> a, raises |-> FALSE,
                  rows |-> load_last_reflection(touched \/ reflections[a] # <<>>,
                                                reflections[a])]
    /\ UNCHANGED <<cycle_vars, appended, log_file, writers, broker_vars,
                   runner_vars, web_vars, indicator_vars>>

ReflNext ==
    \/ \E a \in ASSETS : Trigger(a)
    \/ \E model_ok \in BOOLEAN, persist_ok \in BOOLEAN :
          LogReflection(model_ok, persist_ok)
    \/ CycleReturn
    \/ \E a \in ASSETS, touched \in BOOLEAN : LoadLastReflection(a, touched)

ReflSpec == ReflInit /\ [][ReflNext]_vars

-----------------------------------------------------------------------------
(* The performance statistics on the trade log file, and the trade count   *)
(* that strategy lines 130-132 read from them.  The file model keeps the   *)
(* quantity of a row; its price is the same positive number in every row,  *)
(* so the P&L of a row (qty * price) is counted in units of that price.    *)

\* lines 13-15: pd.to_numeric(errors="coerce").fillna(0) and qty * price
pnl(row) == IF row.qty = Null THEN 0 ELSE row.qty[1]

RECURSIVE net_pnl(_)
net_pnl(rows) == IF rows = <<>> THEN 0 ELSE pnl(Head(rows)) + net_pnl(Tail(rows))

\* lines 17-18: the indexes (from 1) of the rows whose P&L has the sign
\* (1: the winning rows, -1: the losing rows), in their order
selected(rows, sign) ==
    SelectSeq([i \in DOMAIN rows |-> i], LAMBDA i : sign * pnl(rows[i]) > 0)

\* lines 26-27: picked.iloc[picked["pnl"].idxmax()] (idxmin for the losses):
\* the label of the first extreme row, which is its position in the whole
\* frame counted from 0, used as a position among the picked rows only
iloc_label(rows, picked, sign) ==
    IF picked = <<>> THEN [raises |-> FALSE, row |-> 0]
    ELSE LET first == CHOOSE i \in DOMAIN picked :
                         /\ \A j \in DOMAIN picked :
                               sign * pnl(rows[picked[j]]) <= sign * pnl(rows[picked[i]])
                         /\ \A j \in 1..(i - 1) :
                               sign * pnl(rows[picked[i]]) > sign * pnl(rows[picked[j]])
             label == picked[first] - 1
         IN  IF label >= Len(picked) THEN [raises |-> TRUE, row |-> 0]
             ELSE [raises |-> FALSE, row |-> picked[label + 1]]

\* performance.py lines 7-29 on the frame load_trade_log returned; keys is
\* empty for the {} of an empty frame; best_trade and worst_trade are the
\* index of the row in the frame, 0 for {}
trade_stats(frame) ==
    IF frame.raises
    THEN [raises |-> TRUE, keys |-> {}, total_trades |-> 0, net_pnl |-> 0,
          wins |-> 0, best_trade |-> 0, worst_trade |-> 0]
    ELSE IF frame.rows = <<>>
    THEN [raises |-> FALSE, keys |-> {}, total_trades |-> 0, net_pnl |-> 0,
          wins |-> 0, best_trade |-> 0, worst_trade |-> 0]
    ELSE LET rows == frame.rows
             win_trades == selected(rows, 1)
             loss_trades == selected(rows, -1)
             best == iloc_label(rows, win_trades, 1)
             worst == iloc_label(rows, loss_trades, -1)
         IN  [raises |-> best.raises \/ worst.raises,
              keys |-> {"total_trades", "net_pnl", "win_rate", "best_trade",
                        "worst_trade"},
              total_trades |-> Len(rows),
              net_pnl |-> net_pnl(rows),
              wins |-> Len(win_trades),
              best_trade |-> best.row,
              worst_trade |-> worst.row]

\* strategy line 131: stats.get("total_trades", 0)
trade_count_of(stats) ==
    IF "total_trades" \in stats.keys THEN stats.total_trades ELSE 0

\* trade_performance_stats(asset), then strategy lines 131-132
StatsCall(a) ==
    /\ LET stats == trade_stats(load_trade_log(log_file[a]))
       IN  loaded' = [asset |-> a, raises |-> stats.raises,
                      rows |-> <<[stats |-> stats,
                                  trade_count |-> trade_count_of(stats),
                                  due |-> reflection_due(trade_count_of(stats))]>>]
    /\ UNCHANGED <<log_file, appended, writers, file_frame>>

StatsNext ==
    \/ \E a \in ASSETS, rec \in LogRecords : AppendTrade(a, rec)
    \/ \E a \in ASSETS : StatsCall(a)

StatsSpec == FileInit /\ [][StatsNext]_vars

-----------------------------------------------------------------------------
(* The two stores on disk: log_trade and log_reflection name the file from *)
(* the asset and append to it.  A strategy is constructed with the asset   *)
(* as it is spelled in the path of the URL, so one asset may appear in     *)
(* more than one spelling.                                                 *)

\* the assets of the strategies: one asset in two spellings, and another
BTC_USD == <<"B", "T", "C", "-", "U", "S", "D">>
LedgerAssets == {BTCUSD, BTC_USD, SOLUSD}

\* the file name ending of each store
Stores == {"_trades.csv", "_reflections.jsonl"}

\* every file named after asset a, ending included
log_path_shared(a, ending) == [dir |-> "logs", stem |-> <<>>, ending |-> ending]

\* trade_log line 23, reflection line 33: f"logs/{asset.replace('/', '-')}..."
log_path(a, ending) == [dir |-> "logs", stem |-> replace(a, "/", "-"), ending |-> ending]

LogPaths == { log_path(a, e) : a \in LedgerAssets, e \in Stores }

\* json.dumps(reflection) + "\n"
json_dumps(reflection) == [kind |-> "json", value |-> reflection.kind]

\* reflection lines 35-36: open(log_path, "a") and one write
write_line(file, line) == [exists |-> TRUE, lines |-> Append(file.lines, line)]

\* calls of log_trade and log_reflection so far, over all assets
calls_made == Len(appended[BTCUSD]) + Len(appended[BTC_USD]) + Len(appended[SOLUSD])

LedgerInit ==
    /\ pc = "idle"
    /\ asset = <<>>
    /\ open_position = NoPosition
    /\ df = NoDf
    /\ ai_decision = NoDecision
    /\ executed = NoExecution
    /\ orders = <<>>
    /\ result = NoResult
    /\ trades = [a \in ASSETS |-> 0]
    /\ ledger = [a \in ASSETS |-> <<>>]
    /\ reflections = [a \in ASSETS |-> <<>>]
    /\ start = NoStart
    /\ answers = NoAnswers
    /\ limit = 0
    /\ BrokerIdle
    /\ RunnerIdle
    /\ WebIdle
    /\ IndicatorIdle
    /\ log_file = [p \in LogPaths |-> NoFile]
    /\ appended = [a \in LedgerAssets |-> <<>>]
    /\ loaded = NoLoad
    /\ writers = [w \in Writers |-> NoCall]

\* log_trade(asset, record) of the strategy of asset a
LogTradeCall(a, rec) ==
    /\ calls_made < MaxRows
    /\ log_file' = [log_file EXCEPT ![log_path(a, "_trades.csv")] =
                       to_csv(@, trade_row(rec))]
    /\ appended' = [appended EXCEPT ![a] = Append(@, trade_row(rec))]
    /\ loaded' = [asset |-> a, raises |-> FALSE, rows |-> <<trade_row(rec)>>]
    /\ UNCHANGED <<writers, file_frame>>

\* log_reflection(asset, reflection) of the strategy of asset a
LogReflectionCall(a, model_ok) ==
    /\ calls_made < MaxRows
    /\ log_file' = [log_file EXCEPT ![log_path(a, "_reflections.jsonl")] =
                       write_line(@, json_dumps(reflection_of(model_ok)))]
    /\ appended' = [appended EXCEPT ![a] =
                       Append(@, json_dumps(reflection_of(model_ok)))]
    /\ loaded' = [asset |-> a, raises |-> FALSE,
                  rows |-> <<json_dumps(reflection_of(model_ok))>>]
    /\ UNCHANGED <<writers, file_frame>>

LedgerNext ==
    \/ \E a \in LedgerAssets, rec \in LogRecords : LogTradeCall(a, rec)
    \/ \E a \in LedgerAssets, model_ok \in BOOLEAN : LogReflectionCall(a, model_ok)

LedgerSpec == LedgerInit /\ [][LedgerNext]_vars

-----------------------------------------------------------------------------
(* Cycles against a broker whose books change while a cycle runs: another  *)
(* client of the account opens, closes or reverses a position.  The cycle  *)
(* queries the positions at line 63 for the reconciliation and again at    *)
(* line 88 for the prompt of the decision call.                            *)

\* lines 86-92 against the broker's books: the second position query, whose
\* answer is what the decision call is given, and the decision call
DecideOnPositions(fails, outcome, raw) ==
    /\ pc = "decide"
    /\ port_positions' = get_positions(held, fails)
    /\ answers' = [answers EXCEPT !.decision = outcome, !.queries = @ + 1,
                                  !.keys = IF outcome = "parsed" THEN raw.keys
                                           ELSE {}]
    /\ IF outcome \in DecisionErrors
       THEN /\ result' = [kind |-> "error", at |-> "decision"]
            /\ pc' = "return"
            /\ UNCHANGED ai_decision
       ELSE /\ ai_decision' = set_defaults(raw)
            /\ pc' = "reconcile"
            /\ UNCHANGED result
    /\ UNCHANGED <<asset, open_position, df, executed, orders,
                   trades, ledger, reflections, start, limit>>
    /\ UNCHANGED <<held, filled, runner_vars, web_vars, file_vars, indicator_vars>>

\* what another client of the account may leave open in asset a
OtherClientPositions(a) ==
    { p \in HeldPositions(a) : p.isdict } \cup {NoPosition}

\* another client of the account trades asset a while the cycle is between
\* its two position queries
OutOfBand(a, p) ==
    /\ pc \in {"fetch", "indicators", "decide"}
    /\ held[a] # p
    /\ held' = [held EXCEPT ![a] = p]
    /\ UNCHANGED <<filled, port_positions, cycle_vars, runner_vars, web_vars,
                   file_vars, indicator_vars>>

\* the cycle has returned: its locals are gone, the list shown with them
CycleReturnClears ==
    /\ pc = "return"
    /\ pc' = "idle"
    /\ asset' = <<>>
    /\ open_position' = NoPosition
    /\ df' = NoDf
    /\ ai_decision' = NoDecision
    /\ executed' = NoExecution
    /\ orders' = <<>>
    /\ result' = NoResult
    /\ start' = NoStart
    /\ answers' = NoAnswers
    /\ port_positions' = <<>>
    /\ UNCHANGED <<trades, ledger, reflections, limit>>
    /\ UNCHANGED <<held, filled, runner_vars, web_vars, file_vars, indicator_vars>>

FreshNext ==
    \/ \E a \in ASSETS, fails \in BOOLEAN :
          ~filled /\ QueryPositions(a, get_positions(held, fails))
    \/ FetchData(FALSE, [n |-> 50, close |-> 200])
    \/ ComputeIndicators(FALSE)
    \/ \E fails \in BOOLEAN, outcome \in {"parsed", "no_json"}, raw \in BrokerDecisions :
          DecideOnPositions(fails, outcome, raw)
    \/ Reconcile(Num(10000), [kind |-> "dict", price |-> 200])
    \/ \E isdict \in BOOLEAN : Fill(isdict)
    \/ LogTrade
    \/ Reflect(TRUE, TRUE)
    \/ CycleReturnClears
    \/ Settled
    \/ \E a \in ASSETS : \E p \in OtherClientPositions(a) : OutOfBand(a, p)

\* the account is flat when the run starts
FreshInit == BrokerInit /\ held = [a \in ASSETS |-> NoPosition]

FreshSpec == FreshInit /\ [][FreshNext]_vars

-----------------------------------------------------------------------------
(* The single-asset bot: CryptoTradingBot of engine.py.  run_trading_cycle *)
(* is a loop of three awaited steps and a sleep; each step catches its own *)
(* exceptions and returns None.  Of the variables of the cycle the bot     *)
(* uses pc (its position in the loop), df (technical_data), ai_decision    *)
(* (analysis, with the keys the JSON object holds), orders (the requests   *)
(* handed to submit_order in this iteration), executed (what execute_trade *)
(* returns), answers and trades["BTC/USD"] (the length of trades_history). *)

\* the JSON object of the analysis: any of its keys may be missing, the
\* position size may be null
BotKeys == {"recommendation", "position_size", "reasoning"}
Analyses ==
    [keys : SUBSET BotKeys, recommendation : {"BUY", "SELL", "HOLD"},
     position_size : {Num(0), Num(15), Null}]

\* account.buying_power
BuyingPowers == {10000, 0}
\* line 209: the close of the last minute bar
CurrentPrices == {200, 9}

\* line 212: quantity = buying_power * (position_size / 100) / current_price
\* as a fraction
quantity(buying_power, position_size, current_price) ==
    [num |-> buying_power * position_size, den |-> 100 * current_price]

\* lines 245-246: get_technical_indicators returns the data, or None when
\* anything in it raised
GetTechnicalIndicators(ok) ==
    /\ pc = "idle"
    /\ Sum2(trades) < limit
    /\ UNCHANGED outside_cycle
    /\ df' = IF ok THEN [n |-> 50, close |-> 200] ELSE NoDf
    /\ answers' = [NoAnswers EXCEPT !.data = IF ok THEN "bars" ELSE "raise"]
    /\ ai_decision' = NoDecision
    /\ executed' = NoExecution
    /\ orders' = <<>>
    /\ pc' = IF ok THEN "analyze" ELSE "sleep"
    /\ UNCHANGED <<asset, open_position, result, trades, ledger, reflections,
                   start, limit>>

\* lines 248-249: analyze_market_conditions returns the parsed object, or
\* None (no '{', json.loads raised, the API call raised); an empty object is
\* not acted on
AnalyzeMarketConditions(outcome, analysis) ==
    /\ pc = "analyze"
    /\ UNCHANGED outside_cycle
    /\ answers' = [answers EXCEPT !.decision = outcome,
                                  !.keys = IF outcome = "parsed" THEN analysis.keys
                                           ELSE {}]
    /\ ai_decision' = IF outcome = "parsed" THEN analysis ELSE NoDecision
    /\ pc' = IF outcome = "parsed" /\ analysis.keys # {} THEN "trade" ELSE "sleep"
    /\ UNCHANGED <<asset, open_position, df, executed, orders, result, trades,
                   ledger, reflections, start, limit>>

\* the except clause of execute_trade: return None
TradeRaises(at) ==
    /\ executed' = [kind |-> "none", qty |-> 0, price |-> 0]
    /\ answers' = [answers EXCEPT !.order = at]
    /\ UNCHANGED <<orders, trades>>

\* lines 214-235 with every key read one after the other
SubmitOrder(qty, price, submit_ok) ==
    IF qty.num <= 0
    THEN /\ executed' = [kind |-> "none", qty |-> 0, price |-> 0]
         /\ answers' = [answers EXCEPT !.order = "no quantity"]
         /\ UNCHANGED <<orders, trades>>
    ELSE /\ orders' = Append(orders, [symbol |-> BTCUSD, qty |-> qty,
                                      side |-> ai_decision.recommendation])
         /\ IF ~submit_ok
            THEN \* line 222 raises
                 /\ executed' = [kind |-> "none", qty |-> 0, price |-> 0]
                 /\ answers' = [answers EXCEPT !.order = "raise"]
                 /\ UNCHANGED trades
            ELSE IF "reasoning" \notin ai_decision.keys
            THEN \* line 231: analysis['reasoning'] raises KeyError
                 /\ executed' = [kind |-> "none", qty |-> 0, price |-> 0]
                 /\ answers' = [answers EXCEPT !.order = "object"]
                 /\ UNCHANGED trades
            ELSE /\ executed' = [kind |-> "object", qty |-> qty, price |-> price]
                 /\ answers' = [answers EXCEPT !.order = "object"]
                 /\ trades' = [trades EXCEPT ![BTCUSD] = @ + 1]

\* lines 192-239 and 251
ExecuteTrade(account_ok, buying_power, price_ok, current_price, submit_ok) ==
    /\ pc = "trade"
    /\ UNCHANGED outside_cycle
    /\ pc' = "sleep"
    /\ IF "recommendation" \notin ai_decision.keys
       THEN TradeRaises("no recommendation")
       ELSE IF ai_decision.recommendation \notin {"BUY", "SELL"}
               \/ "position_size" \notin ai_decision.keys
       THEN /\ executed' = [kind |-> "none", qty |-> 0, price |-> 0]
            /\ UNCHANGED <<orders, trades, answers>>
       ELSE IF ai_decision.position_size = Null
       THEN \* line 195: None > 0
            TradeRaises("no size")
       ELSE IF ai_decision.position_size[1] <= 0
       THEN /\ executed' = [kind |-> "none", qty |-> 0, price |-> 0]
            /\ UNCHANGED <<orders, trades, answers>>
       ELSE IF ~account_ok
       THEN TradeRaises("no account")
       ELSE IF ~price_ok
       THEN TradeRaises("no price")
       ELSE SubmitOrder(quantity(buying_power, ai_decision.position_size[1],
                                 current_price), current_price, submit_ok)
    /\ UNCHANGED <<asset, open_position, df, ai_decision, result, ledger,
                   reflections, start, limit>>

\* line 254: await asyncio.sleep(TRADING_CYCLE_INTERVAL), then the next
\* iteration of while True
BotSleep ==
    /\ pc = "sleep"
    /\ pc' = "idle"
    /\ UNCHANGED <<asset, open_position, df, ai_decision, executed, orders,
                   result, trades, ledger, reflections, start, answers, limit,
                   outside_cycle>>

BotNext ==
    \/ \E ok \in BOOLEAN : GetTechnicalIndicators(ok)
    \/ \E outcome \in DecisionOutcomes, analysis \in Analyses :
          AnalyzeMarketConditions(outcome, analysis)
    \/ \E account_ok \in BOOLEAN, buying_power \in BuyingPowers,
          price_ok \in BOOLEAN, current_price \in CurrentPrices,
          submit_ok \in BOOLEAN :
          ExecuteTrade(account_ok, buying_power, price_ok, current_price, submit_ok)
    \/ BotSleep

BotSpec == Init /\ [][BotNext]_vars

-----------------------------------------------------------------------------
(* Properties of one trading cycle *)

Long == open_position # NoPosition /\ lower_side(open_position.side) = "long"
Short == open_position # NoPosition /\ lower_side(open_position.side) = "short"
Flat == open_position = NoPosition
Recommended(labels) == ai_decision.recommendation \in labels
ReachedLogging == pc # "idle" /\ trades[asset] = start.trades + 1
LedgerGrowth == Len(ledger[asset]) - start.ledger
ReflectionGrowth == Len(reflections[asset]) - start.reflections
NothingPersisted ==
    /\ LedgerGrowth = 0
    /\ ReflectionGrowth = 0
    /\ trades[asset] = start.trades
CloseOrder(side) ==
    [symbol |-> asset, qty |-> Abs(open_position.qty), side |-> side]

\* C1: a cycle that has reached the logging step has added exactly one
\* record to the ledger of its asset, whatever branch it took.
C1_LedgerGrowsByOne ==
    (ReachedLogging /\ pc \in {"reflect", "return"}) => LedgerGrowth = 1

\* C2 as stated: after a decision call that gave no parsable JSON or failed,
\* the cycle ends having appended a record with recommendation HOLD and
\* sizing 0, with no order, returning that record.
DecisionFailed == answers.decision \in DecisionErrors

C3_CloseOrderSubmitted ==
    (pc = "return" /\ answers.decision = "parsed") =>
        /\ (Long /\ Recommended({"SELL"})) => orders = <<CloseOrder("SELL")>>
        /\ (Short /\ Recommended({"BUY"})) => orders = <<CloseOrder("BUY")>>

\* C4: with an open long position and a HOLD or BUY recommendation, or an
\* open short position and a HOLD or SELL recommendation, no order is
\* submitted, whatever the sizing.
C4_NoOrderUnlessClosing ==
    ((Long /\ Recommended({"HOLD", "BUY"})) \/ (Short /\ Recommended({"HOLD", "SELL"})))
        => orders = <<>>

C4_Witness ==
    /\ pc = "return"
    /\ result.kind = "record"
    /\ Long
    /\ Recommended({"BUY"})
    /\ ai_decision.position_sizing = Num(15)
    /\ orders = <<>>

\* q is x = num/den rounded to 6 decimals: |q/10^6 - x| <= 10^-6 / 2
NearestMicro(q, num, den) ==
    2 * Abs(q * den - num * (10 ^ QtyDecimals)) <= den

\* C5: with no open position, every order the cycle submits is the only one,
\* has the recommended side (BUY or SELL, sizing S > 0) and the quantity
\* round(E * S / 100 / P, 6) for the account equity E and the last close P
\* of the indicator-aligned frame; and a cycle that gets past reconciliation
\* with such a recommendation has submitted it.
C5_OpeningOrderSized ==
    /\ (Flat /\ orders # <<>>) =>
          /\ Len(orders) = 1
          /\ Recommended({"BUY", "SELL"})
          /\ ai_decision.position_sizing # Null
          /\ ai_decision.position_sizing[1] > 0
          /\ answers.equity # Null
          /\ df.n > 0
          /\ orders[1].symbol = asset
          /\ orders[1].side = ai_decision.recommendation
          /\ orders[1].qty = round6(answers.equity[1] * ai_decision.position_sizing[1],
                                    100 * df.close)
          /\ answers.equity = Num(1) =>
                NearestMicro(orders[1].qty, ai_decision.position_sizing[1],
                             100 * df.close)
    /\ (Flat /\ pc \in {"log", "reflect"} /\ Recommended({"BUY", "SELL"})
             /\ ai_decision.position_sizing[1] > 0) => Len(orders) = 1

\* equity 10000, sizing 15, last close 200: 7.5
C5_Witness ==
    /\ Flat
    /\ answers.equity = Num(10000)
    /\ ai_decision = [recommendation |-> "BUY", position_sizing |-> Num(15)]
    /\ df.close = 200
    /\ orders = <<[symbol |-> BTCUSD, qty |-> 7500000, side |-> "BUY"]>>

\* C6: in a cycle whose recommendation has sizing 0 no order is submitted,
\* with or without an open position.
C6_ZeroSizingNoOrder ==
    ai_decision.position_sizing = Num(0) => orders = <<>>

\* C7: starting from an empty ledger, the k-th cycle of an asset that is
\* logged and returns its record has run the reflection exactly when k > 0
\* and k mod reflection_interval = 0.
C7_ReflectionEveryInterval ==
    (pc = "return" /\ result.kind = "record") =>
        (ReflectionGrowth = 1
            <=> (trades[asset] > 0 /\ trades[asset] % reflection_interval = 0))

\* C8: when the data call fails or returns no bars, the cycle ends with an
\* error descriptor, without any order, ledger record or reflection, and
\* the runner is idle again afterwards with the logs as they were.
DataFailed == answers.data \in {"raise", "empty"}

C8_DataFailureAborts ==
    /\ [](DataFailed =>
            /\ pc = "return"
            /\ result = [kind |-> "error", at |-> "data"]
            /\ orders = <<>>
            /\ NothingPersisted)
    /\ [][DataFailed =>
            /\ pc' = "idle"
            /\ result' = NoResult
            /\ UNCHANGED <<trades, ledger, reflections>>]_vars

C8_Witness ==
    /\ pc = "return"
    /\ answers.data = "empty"
    /\ result.kind = "error"

\* C9: when reconciliation decides to trade and the account query or the
\* order submission fails, the cycle still ends with exactly one new ledger
\* record, whose execution outcome is the error, and returns that record.
ExecutionFailed == answers.order \in {"no account", "raise"}

C9_ExecutionErrorRecorded ==
    (pc = "return" /\ ExecutionFailed) =>
        /\ result.kind = "record"
        /\ executed.kind = "error"
        /\ LedgerGrowth = 1

\* C10: a failure in the reflection step (the statistics, the model call,
\* the write of the reflection) leaves the cycle's record in the ledger and
\* trading_cycle still returns the record.
ReflectionFailed ==
    answers.reflection \in {"stats raised", "model error", "persist raised"}

C10_ReflectionFailureContained ==
    (pc = "return" /\ ReflectionFailed) =>
        /\ LedgerGrowth >= 1
        /\ result.kind = "record"

-----------------------------------------------------------------------------
(* Properties of the sequential runner *)

InCycleOf(a) == loop_pc = "cycle" /\ AssetList[loop_index] = a
Stopped == loop_pc = "stopped"

Honoured(res) ==
    /\ res.kind = "record"
    /\ res.next_cycle_seconds.type = "int"
    /\ MinCycleSeconds <= res.next_cycle_seconds.value
    /\ res.next_cycle_seconds.value < TRADING_CYCLE_INTERVAL

MinOf(S) == CHOOSE x \in S : \A y \in S : x <= y

-----------------------------------------------------------------------------
(* Properties of the control channel and its timed runners *)

SameAsset(c, d) == Open(c) /\ Open(d) /\ ws[c].asset = ws[d].asset
CycleStarts(c) == ~ws[c].in_cycle /\ ws'[c].in_cycle
Accepted(c) == ws[c].state = "closed" /\ ws'[c].state = "open"

\* C12: whatever connections are open for an asset, no two of their runners
\* are inside a cycle for that asset at the same time; a cycle for the asset
\* starts only when none is in progress.
C12_OneCycleAtATimePerAsset ==
    \A c, d \in Conns :
        (c # d /\ ws[c].in_cycle /\ ws[d].in_cycle) => ~SameAsset(c, d)

\* two runners are open for one asset: the cycle of one is in progress
\* while the other is due
C12_Witness ==
    /\ ws[1].in_cycle
    /\ SameAsset(1, 2)
    /\ Due(2)

\* C13: while the cycle of one asset is in progress, the runner of another
\* asset that is due can start its cycle, and a control message for the
\* other asset can be handled.
C13_OtherAssetsNotBlocked ==
    \A c, d \in Conns :
        (ws[c].in_cycle /\ Open(d) /\ ~SameAsset(c, d)) =>
            /\ Due(d) => ENABLED CycleStart(d)
            /\ ENABLED Handle(d, [action |-> "pause", interval |-> NoValue], TRUE)

\* C14: a runner starts not paused, and no cycle starts for an asset
\* whose last pause or resume message was a pause.
C14_NoCycleStartsWhilePaused ==
    /\ [][\A c \in Conns : Accepted(c) => ~ws'[c].paused]_vars
    /\ [][\A c \in Conns :
            CycleStarts(c) => control[ws[c].asset] # "pause"]_vars

\* an integer of the allow-list
AllowedValue(v) == v.type = "int" /\ v.whole \in allowed_intervals

\* C15: a set-interval message whose value is no integer of the allow-list
\* changes nothing (interval, paused flag, next run, interval file), and
\* the interval of every runner is always in the allow-list.
C15_InvalidIntervalRejected ==
    /\ [][(received'.action = "set_interval" /\ ~AllowedValue(received'.interval))
            => UNCHANGED <<ws, interval_settings>>]_vars
    /\ [](\A c \in Conns : Open(c) => ws[c].interval \in allowed_intervals)

\* C16: a runner that is created for an asset whose interval file entry
\* holds an accepted value v schedules with the interval v.
C16_IntervalSurvivesRestart ==
    [][\A c \in Conns :
         (Accepted(c) /\ interval_settings[ws'[c].asset] # Null)
            => ws'[c].interval = interval_settings[ws'[c].asset][1]]_vars

-----------------------------------------------------------------------------
(* Properties of the trade log file *)

Timestamps(rows) == [i \in DOMAIN rows |-> rows[i].timestamp]
HeaderLines(file) == { i \in DOMAIN file.lines : file.lines[i].kind = "header" }

\* C18: whatever appends and restarts came before, loading the ledger of an
\* asset does not raise and returns one row per appended record of that
\* asset, in append order (the most recent last), with the record's
\* timestamp and quantity (NaN for None); the file holds the header once,
\* as its first line, and the header is not among the rows.
C18_LoadReturnsAppended ==
    /\ loaded.asset # <<>> =>
          /\ ~loaded.raises
          /\ Len(loaded.rows) = Len(appended[loaded.asset])
          /\ Timestamps(loaded.rows) = Timestamps(appended[loaded.asset])
          /\ \A i \in DOMAIN loaded.rows :
                loaded.rows[i].qty = appended[loaded.asset][i].qty
    /\ \A a \in ASSETS :
          /\ log_file[a].exists <=> appended[a] # <<>>
          /\ log_file[a].exists => HeaderLines(log_file[a]) = {1}

\* three records were appended for BTC/USD, the oldest with the latest
\* timestamp, while SOL/USD has records of its own; the load gives them back
C18_Witness ==
    /\ loaded.asset = BTCUSD
    /\ Timestamps(loaded.rows) = <<2, 1, 1>>
    /\ appended[SOLUSD] # <<>>

-----------------------------------------------------------------------------
(* Properties of the indicator engine *)

IsSuffix(rows, frame) ==
    /\ Len(rows) <= Len(frame)
    /\ \A i \in DOMAIN rows : rows[i] = frame[Len(frame) - Len(rows) + i]

\* C19: the output of add_indicators on L bars is a suffix of the bars (the
\* same bars in the same order), is not longer than L, and is empty exactly
\* when L is less than the longest window W = 50 (a call that raises on a
\* short series gives no output at all).
C19_AlignedSuffix ==
    /\ aligned.raises => Len(bar_frame) < MinBars
    /\ (aligned.called /\ ~aligned.raises) =>
          /\ IsSuffix(aligned.rows, bar_frame)
          /\ Len(aligned.rows) <= Len(bar_frame)
          /\ (Len(aligned.rows) = 0 <=> Len(bar_frame) < MinBars)

-----------------------------------------------------------------------------
(* Properties of the cycles against the broker *)

\* the order that closes a position: the opposite side, the full quantity
closing_order(pos, a) ==
    [symbol |-> a, qty |-> Abs(pos.qty),
     side |-> IF pos.qty > 0 THEN "SELL" ELSE "BUY"]

\* C20: in every cycle, also one whose position query failed, an order
\* submitted while the broker holds a position in the asset is the only
\* order of the cycle and is the opposite-side order for the position's
\* full absolute quantity: no order adds to the position or trims it.
C20_OnlyFullCloseWhileOpen ==
    [][(Len(orders') > Len(orders) /\ held[asset] # NoPosition)
          => orders' = <<closing_order(held[asset], asset)>>]_vars

-----------------------------------------------------------------------------
(* Properties of the stop signal *)

\* the broker accepted an order of the cycle in flight and no row of the
\* cycle is in the ledger
OrderNotRecorded ==
    /\ pc # "idle"
    /\ executed.kind \in {"dict", "object"}
    /\ Len(ledger[asset]) = start.ledger

\* C21: the runner never halts on a stop signal with an order of the cycle
\* in flight submitted and its trade record not appended, and after the
\* signal no step of any cycle is taken.
C21_StopAfterCurrentCycleStep ==
    /\ [](loop_pc = "stopped" => ~OrderNotRecorded)
    /\ [][loop_pc = "stopped" => UNCHANGED cycle_vars]_vars

-----------------------------------------------------------------------------
(* Properties of the interval store *)

\* C22: when set_interval(a, x) and set_interval(b, y) for distinct assets
\* have both returned, whatever the order of their load and save steps, the
\* store holds a = x and b = y; and the save of set_interval(a, x) leaves
\* the entry of every other asset as it was.
C22_AssetWritesNeverConflict ==
    /\ []((/\ \A w \in Writers : writers[w].pc = "done"
           /\ writers[1].asset # writers[2].asset)
          => \A w \in Writers :
                interval_settings[writers[w].asset] = Num(writers[w].interval))
    /\ [][\A w \in Writers :
            (writers[w].pc = "save" /\ writers'[w].pc = "done")
            => \A b \in ASSETS \ {writers[w].asset} :
                  interval_settings'[b] = interval_settings[b]]_vars

-----------------------------------------------------------------------------
(* Properties of the position lookup *)

\* a symbol with the separators '-', '_', '/' and the letter case made equal
normalized(s) == replace(replace(upper(s), "-", "/"), "_", "/")

\* C23: the lookup finds a position if and only if some position of the
\* list has a symbol equal to the asset after the separators '-', '_', '/'
\* and the letter case are normalized on both sides.
C23_MatchingIsSymmetric ==
    pc # "idle" =>
       (open_position # NoPosition
          <=> \E i \in DOMAIN port_positions :
                 normalized(port_positions[i].symbol) = normalized(asset))

\* the places in the list of the positions that match the asset
Matches ==
    { i \in DOMAIN port_positions : symbol_matches(port_positions[i].symbol, asset) }
FirstMatch == port_positions[CHOOSE i \in Matches : \A j \in Matches : i <= j]

\* C29: when positions of the list match the asset, the position used is the
\* first match in the order of the list, and an order submitted is the order
\* closing that position: side and quantity of later matches have no effect.
C29_FirstMatchIsUsed ==
    (pc # "idle" /\ Matches # {}) =>
       /\ open_position = FirstMatch
       /\ orders # <<>> => orders = <<closing_order(FirstMatch, asset)>>

\* two positions match, the second with the other side and quantity, and
\* the order closing the first has been submitted
C29_Witness ==
    /\ Cardinality(Matches) = 2
    /\ port_positions[1].side # port_positions[2].side
    /\ orders = <<closing_order(port_positions[1], asset)>>

-----------------------------------------------------------------------------
(* Properties of the reflection store *)

IsPrefix(s, t) == Len(s) <= Len(t) /\ SubSeq(t, 1, Len(s)) = s

\* C24: load_last_reflection(asset) returns the reflection appended last for
\* that asset, and none when nothing was appended (file missing or empty);
\* a trigger whose write succeeds appends exactly one line for its asset, a
\* trigger whose write fails appends none, and no step changes or removes a
\* line written earlier.
C24_LastReflectionIsLatest ==
    /\ [](loaded.asset \in ASSETS =>
            loaded.rows = IF appended[loaded.asset] = <<>> THEN <<>>
                          ELSE <<appended[loaded.asset][Len(appended[loaded.asset])]>>)
    /\ [][/\ \A a \in ASSETS : IsPrefix(reflections[a], reflections'[a])
          /\ (pc = "reflect" /\ pc' = "return") =>
                /\ Len(reflections'[asset]) = Len(reflections[asset])
                      + (IF Len(appended'[asset]) > Len(appended[asset]) THEN 1 ELSE 0)
                /\ \A a \in ASSETS \ {asset} : reflections'[a] = reflections[a]
          /\ (pc # "reflect") => reflections' = reflections]_vars

\* an error descriptor and then a reflection were appended for BTC/USD, one
\* reflection for SOL/USD, and the last one of BTC/USD has been loaded
C24_Witness ==
    /\ appended[BTCUSD] = <<[kind |-> "error"], [kind |-> "reflection"]>>
    /\ appended[SOLUSD] # <<>>
    /\ loaded = [asset |-> BTCUSD, raises |-> FALSE, rows |-> <<[kind |-> "reflection"]>>]

-----------------------------------------------------------------------------
(* Properties of the market summary *)

\* the cycle is past lines 81-84: the frame is the aligned one and the
\* summary has been built from it
PastSummary ==
    \/ pc \in {"decide", "reconcile", "log", "reflect"}
    \/ pc = "return" /\ answers.decision # ""

\* C25: a cycle gets past the summary only with at least `window` aligned
\* entries (with fewer, summarize fails and the cycle ends without decision,
\* order or trade record), and the summary then has exactly `window` entries
\* per field.
C25_SummaryNeedsWindow ==
    PastSummary =>
       /\ df.n >= SummaryBars
       /\ summarize_for_ai(df, SummaryBars).entries = SummaryBars

-----------------------------------------------------------------------------
(* Properties of the performance statistics *)

\* C26: the statistics of an asset without any ledger record are the empty
\* object and nothing is raised; the trade count read from them is 0 and no
\* reflection is due.
C26_EmptyLedgerGivesEmptyStats ==
    (loaded.asset \in ASSETS /\ appended[loaded.asset] = <<>>) =>
       /\ ~loaded.raises
       /\ loaded.rows[1].stats.keys = {}
       /\ loaded.rows[1].trade_count = 0
       /\ ~loaded.rows[1].due

\* the statistics of BTC/USD were asked for while it has no record and
\* SOL/USD has some
C26_Witness ==
    /\ loaded.asset = BTCUSD
    /\ appended[BTCUSD] = <<>>
    /\ appended[SOLUSD] # <<>>
    /\ Len(loaded.rows) = 1

\* the P&L of an appended record: qty * price, a missing qty counted as 0
record_pnl(rec) == IF rec.qty = Null THEN 0 ELSE rec.qty[1]
RECURSIVE records_pnl(_)
records_pnl(recs) ==
    IF recs = <<>> THEN 0 ELSE record_pnl(Head(recs)) + records_pnl(Tail(recs))
Winners(recs) == { i \in DOMAIN recs : record_pnl(recs[i]) > 0 }
Losers(recs) == { i \in DOMAIN recs : record_pnl(recs[i]) < 0 }

\* C30: for an asset with records, the statistics are returned without
\* raising; the total is the number of records, the net P&L the sum of their
\* P&L, the number of wins the number of records with positive P&L, the best
\* trade a record with the largest positive P&L and the worst trade a record
\* with the smallest negative P&L (none when there is no such record),
\* wherever those records are in the ledger.
C30_StatsOfLedger ==
    (loaded.asset \in ASSETS /\ appended[loaded.asset] # <<>>) =>
       LET recs == appended[loaded.asset]
           stats == loaded.rows[1].stats
       IN  /\ ~loaded.raises
           /\ stats.total_trades = Len(recs)
           /\ stats.net_pnl = records_pnl(recs)
           /\ stats.wins = Cardinality(Winners(recs))
           /\ IF Winners(recs) = {} THEN stats.best_trade = 0
              ELSE /\ stats.best_trade \in Winners(recs)
                   /\ \A j \in Winners(recs) :
                         record_pnl(recs[j]) <= record_pnl(recs[stats.best_trade])
           /\ IF Losers(recs) = {} THEN stats.worst_trade = 0
              ELSE /\ stats.worst_trade \in Losers(recs)
                   /\ \A j \in Losers(recs) :
                         record_pnl(recs[j]) >= record_pnl(recs[stats.worst_trade])

-----------------------------------------------------------------------------
(* Properties of the order of the steps of a cycle *)

\* the order of the steps, a failure leading from any step to the return
Flow ==
    { <<"idle", "fetch">>, <<"fetch", "indicators">>, <<"indicators", "decide">>,
      <<"decide", "reconcile">>, <<"reconcile", "log">>, <<"log", "reflect">>,
      <<"reflect", "return">>, <<"return", "idle">> }
    \cup { <<s, "return">> : s \in {"fetch", "indicators", "decide", "reconcile",
                                    "log", "reflect"} }

\* every step follows the order, and each effect belongs to its step
StepsInOrder ==
    [][/\ pc' # pc => <<pc, pc'>> \in Flow
       /\ (answers'.data # answers.data /\ answers'.data # "") => pc = "fetch"
       /\ (answers'.decision # answers.decision /\ answers'.decision # "")
             => pc = "decide"
       /\ Len(orders') > Len(orders) => pc = "reconcile" /\ Len(orders') = 1
       /\ ledger' # ledger => pc = "log"
       /\ reflections' # reflections => pc = "reflect"]_vars

\* a step that raised: the cycle has returned an error descriptor
RaisedAnswer ==
    \/ answers.data \in {"raise", "empty"}
    \/ answers.decision \in DecisionErrors
    \/ answers.order = "no account"
    \/ answers.reflection \in {"persist raised", "stats raised"}

\* C27 as stated: the steps of a cycle come in the order position query,
\* data fetch, indicators, decision, at most one order, ledger append,
\* reflection, the positions being queried once; trading_cycle returns a
\* record or an error descriptor; and when any port call of the cycle
\* failed, the failed order submission included, the cycle has ended with an
\* error descriptor.
C27_StepsInOrderAnyFailureEnds ==
    /\ StepsInOrder
    /\ [](answers.queries <= 1)
    /\ [](pc = "return" => result.kind \in {"record", "error"})
    /\ []((RaisedAnswer \/ answers.order = "raise")
             => pc = "return" /\ result.kind = "error")

\* C27 amended: the same order of steps with the positions queried a second
\* time in the decision step; a step that raises ends the cycle with an
\* error descriptor and no later step; an order submission that failed does
\* not raise: the error is what was executed, and the cycle goes on to the
\* ledger append.
C27_StepsInOrderRaisingEnds ==
    /\ StepsInOrder
    /\ [](answers.queries = (IF answers.decision # "" THEN 2
                             ELSE IF pc \in {"idle"} THEN 0 ELSE 1))
    /\ [](pc = "return" => result.kind \in {"record", "error"})
    /\ [](RaisedAnswer => pc = "return" /\ result.kind = "error")
    /\ [](result.kind = "error" => pc = "return")
    /\ [](answers.order = "raise"
             => /\ executed.kind = "error"
                /\ pc \in {"log", "reflect", "return"}
                /\ pc = "reflect" => LedgerGrowth > 0)

\* the order submission failed, and the cycle returned its record after the
\* ledger append, having queried the positions twice
C27_Witness ==
    /\ pc = "return"
    /\ answers.order = "raise"
    /\ answers.queries = 2
    /\ result.kind = "record"
    /\ LedgerGrowth > 0

-----------------------------------------------------------------------------
(* Properties of the size of an opening order *)

\* C28: an order that opens a position was sized with a percentage within
\* [0, 100], and its quantity is at most the quantity that the whole equity
\* buys at the last close (its notional does not exceed the equity).
C28_OpeningOrderWithinEquity ==
    (Flat /\ orders # <<>>) =>
       /\ ai_decision.position_sizing[1] >= 0
       /\ ai_decision.position_sizing[1] <= 100
       /\ orders[1].qty <= round6(answers.equity[1] * 100, 100 * df.close)

-----------------------------------------------------------------------------
(* Properties of the stores on disk *)

\* the lines of a file that are records (the header names the columns)
records_of(file) == SelectSeq(file.lines, LAMBDA l : l.kind # "header")

\* the files of asset a, in each store
files_of(a) == { p \in LogPaths : \E e \in Stores : p = log_path(a, e) }

\* C31: an append of a trade record or of a reflection for asset A leaves
\* every line already in any file where it is (each file only grows at its
\* end), adds exactly one record, to a file of A, and changes no file of an
\* asset that differs from A by more than its spelling.
C31_StoresAppendOnlyPerAsset ==
    [][/\ \A p \in LogPaths : IsPrefix(log_file[p].lines, log_file'[p].lines)
       /\ \E p \in files_of(loaded'.asset) :
             /\ records_of(log_file'[p]) = records_of(log_file[p]) \o loaded'.rows
             /\ \A q \in LogPaths \ {p} : log_file'[q] = log_file[q]
       /\ \A b \in LedgerAssets :
             normalized(b) # normalized(loaded'.asset) =>
                \A q \in files_of(b) : log_file'[q] = log_file[q]]_vars

\* trade records of both assets and a reflection are on disk, each in the
\* file of its asset
C31_Witness ==
    /\ Len(records_of(log_file[log_path(BTCUSD, "_trades.csv")])) = 1
    /\ Len(records_of(log_file[log_path(SOLUSD, "_trades.csv")])) = 1
    /\ log_file[log_path(SOLUSD, "_reflections.jsonl")].lines
          = <<json_dumps(reflection_of(TRUE))>>

-----------------------------------------------------------------------------
(* Properties of the decision adapter *)

\* the decision call of this cycle returned a parsed object
Parsed == answers.decision = "parsed"

\* C32: the decision call never raises into the cycle: it gives an error
\* descriptor or a recommendation whose missing fields hold their defaults
\* (HOLD, sizing 0), and a parsed response that omits the recommendation or
\* the sizing leads to no order.
C32_DefaultsLeadToNoOrder ==
    /\ result.at # "decision" \/ result.kind # "error" \/ DecisionFailed
    /\ Parsed =>
          /\ "recommendation" \notin answers.keys => ai_decision.recommendation = "HOLD"
          /\ "position_sizing" \notin answers.keys => ai_decision.position_sizing = Num(0)
          /\ answers.keys # {"recommendation", "position_sizing"} => orders = <<>>

-----------------------------------------------------------------------------
(* Properties of the position snapshot *)

\* C33: every cycle reads the position from the broker when it starts (what
\* it keeps is the broker's position of that moment, or none when the query
\* failed, never that of an earlier cycle), and the position of the asset in
\* the list given to the decision call is the position the reconciliation
\* acts on, whatever happens at the broker during the cycle.
C33_OneSnapshotPerCycle ==
    /\ [](pc = "idle" => open_position = NoPosition)
    /\ [][(pc = "idle" /\ pc' = "fetch") =>
             open_position' \in {find_open_position(get_all_positions(held), asset'),
                                 NoPosition}]_vars
    /\ [][(pc = "decide" /\ pc' # "decide") =>
             find_open_position(port_positions', asset) = open_position]_vars

-----------------------------------------------------------------------------
(* Properties of the orders of one cycle *)

\* the cycle failed at or before the reconciliation
FailedByReconciliation ==
    result.kind = "error" /\ result.at \in {"data", "indicators", "decision", "reconcile"}

\* C34: a cycle hands at most one order to the broker, with or without an
\* open position and whatever the ports answer, and a cycle that fails
\* before or during the reconciliation has handed it none.
C34_AtMostOneOrderPerCycle ==
    /\ Len(orders) <= 1
    /\ FailedByReconciliation => orders = <<>>

\* a cycle has submitted its one order, which the broker refused, and goes
\* on to the logging step
C34_Witness ==
    /\ pc = "log"
    /\ Len(orders) = 1
    /\ executed.kind = "error"

\* C35: a parsed recommendation whose label is not exactly BUY or SELL (HOLD,
\* a lower-case label) with a numeric sizing leads to no order, with or
\* without an open position, and the cycle ends with its record appended to
\* the ledger.
C35_OtherLabelsOnlyRecord ==
    (/\ Parsed
     /\ ai_decision.recommendation \notin {"BUY", "SELL"}
     /\ ai_decision.position_sizing # Null) =>
        /\ orders = <<>>
        /\ pc = "return" => Len(ledger[asset]) > start.ledger

-----------------------------------------------------------------------------
(* Properties of the schedule of a timed runner *)

CycleEnds(c) == ws[c].in_cycle /\ ~ws'[c].in_cycle /\ Open(c)
\* the step handled a pause, a resume or a set_interval of connection c
Controlled(c) ==
    received'.conn = c /\ received'.action \in {"pause", "resume", "set_interval"}

\* C36: in one timed runner a cycle starts at least one interval after the
\* start of the cycle before it, the interval being the one in force when
\* the run after that cycle was scheduled (at its return); a pause, a
\* resume and an accepted set_interval leave the scheduled run time as it
\* is, so a resumed runner starts one cycle for all the run times it missed
\* and a new interval is used from the next scheduling on.
C36_StartsOneIntervalApart ==
    /\ [][\A c \in Conns :
            (CycleStarts(c) /\ ws[c].last_start # Null) =>
               now >= ws[c].last_start[1] + ws[c].last_interval]_vars
    /\ [][\A c \in Conns :
            Controlled(c) =>
               /\ ws'[c].next_run = ws[c].next_run
               /\ ws'[c].last_interval = ws[c].last_interval]_vars
    /\ [][\A c \in Conns :
            CycleEnds(c) =>
               ws'[c].next_run = ws[c].cycle_now + ws'[c].interval]_vars

\* the runner ran a cycle at 0 and scheduled the next 60 s later, was
\* resumed after two of its run times had passed, and is in its next cycle
C36_Witness ==
    /\ ws[1].in_cycle
    /\ ws[1].last_start = Num(0)
    /\ ws[1].last_interval = 60
    /\ ws[1].cycle_now >= 2 * TickSeconds
    /\ control[ws[1].asset] = "resume"

-----------------------------------------------------------------------------
(* Properties of the single-asset bot *)

\* the step handed an order to submit_order
BotSubmits == Len(orders') > Len(orders)

\* C37: the bot hands an order to the broker only for a BUY or SELL with a
\* position size above 0 and a quantity above 0; trades_history grows by one
\* entry in a step whose order the broker accepted and stays as it is in
\* every other step; after a failed step the loop goes on to its sleep.
C37_BotHistoryFollowsOrders ==
    /\ [][BotSubmits =>
            /\ "recommendation" \in ai_decision.keys
            /\ ai_decision.recommendation \in {"BUY", "SELL"}
            /\ "position_size" \in ai_decision.keys
            /\ ai_decision.position_size # Null
            /\ ai_decision.position_size[1] > 0
            /\ orders'[Len(orders')].qty.num > 0]_vars
    /\ [][trades'[BTCUSD] = trades[BTCUSD]
             + (IF BotSubmits /\ answers'.order = "object" THEN 1 ELSE 0)]_vars
    /\ [][(pc \in {"idle", "analyze", "trade"} /\ pc' # pc) =>
             pc' \in {"analyze", "trade", "sleep"}]_vars

====
